---- MODULE Spec2Model ----
(***************************************************************************)
(* Transcript comparison and gap repair (compare_transcripts.py).          *)
(*                                                                         *)
(* Times are kept in tenths of a second so that the float arithmetic of    *)
(* the source (sub-second engine offsets, word_count / 2.5) stays exact.   *)
(* A text is the sequence of its whitespace-separated words.               *)
(* A file is the sequence of its lines; a line is a record                 *)
(*   [kind, min, sec, text]                                                *)
(* where kind tells what the line starts with ("Chapter", "Video", "Time", *)
(* "Model", "sep" for a run of '=', "blank", or "seg" for '[MM:SS] text'). *)
(***************************************************************************)
EXTENDS Integers, Sequences, FiniteSets, TLC

\* ------------------------------------------------------------------ bounds
MaxGaps == 2
MaxSubs == 2
MaxRuns == 2

\* ------------------------------------------------------- program constants
Scale == 10                \* tenths per second
ToleranceSeconds == 2      \* segments_overlap(..., tolerance=2.0)
FirstWordCount == 10       \* .split()[:10]
DefaultDuration == 5       \* end_seconds = start_seconds + 5
MaxSegmentDuration == 8    \* start_seconds + 8
LastSegmentCap == 10       \* start_seconds + 10
LargeGapSeconds == 15      \* if gap < 15
LabelDigits == 2           \* \d{2} in timestamp_pattern

\* ------------------------------------------------------------------- texts
Lower(w) ==
  CASE w = "Alpha" -> "alpha"
    [] OTHER -> w

LowerText(t) == [i \in 1..Len(t) |-> Lower(t[i])]

Min(a, b) == IF a <= b THEN a ELSE b

\* set(text.lower().split()[:10])
FirstWords(t) ==
  LET l == LowerText(t)
  IN {l[i] : i \in 1..Min(Len(l), FirstWordCount)}

T_abcd  == <<"alpha", "beta", "gamma", "delta">>
T_Abc   == <<"Alpha", "beta", "gamma">>
T_next  == <<"next", "thing", "here">>
T_late  == <<"late", "words", "here">>
T_opc   == <<"omega", "psi", "chi">>
T_zeta  == <<"zeta", "eta", "theta">>
T_empty == <<>>

\* ------------------------------------------------------------------- lines
HeaderLine(k) == [kind |-> k, min |-> 0, sec |-> 0, text |-> <<>>]
\* "Time: MM:SS - ..." for a chapter starting at s whole seconds
TimeLine(s) == [kind |-> "Time", min |-> s \div 60, sec |-> s % 60, text |-> <<>>]
BlankLine == HeaderLine("blank")
\* f"{seg.timestamp_str} {seg.text}\n"
SegLine(label, t) == [kind |-> "seg", min |-> label.min, sec |-> label.sec, text |-> t]

\* f"[{start_min:02d}:{start_sec:02d}]" with start_min = int(t // 60),
\* start_sec = int(t % 60); t in tenths of a second
FormatLabel(t) ==
  LET whole == t \div Scale
  IN [min |-> whole \div 60, sec |-> whole % 60]

\* number of characters "{n:02d}" prints
Digits2(n) == IF n < 10 THEN 2 ELSE IF n < 100 THEN 2 ELSE IF n < 1000 THEN 3 ELSE 4

\* timestamp_pattern.match(line): r'\[(\d{2}):(\d{2})\]' at line start
TimestampMatch(line) ==
  /\ line.kind = "seg"
  /\ Digits2(line.min) = LabelDigits
  /\ Digits2(line.sec) = LabelDigits

\* a start time that leaves out the minutes
LabelStart_secondsOnly(line) == line.sec * Scale

\* minutes * 60 + seconds, in tenths
LabelStart(line) == (line.min * 60 + line.sec) * Scale


\* ------------------------------------------------------------------ parser
\* parse_transcript_file, header scan: lines skipped while in_header
IsHeaderSkipped(line) ==
  line.kind \in {"Chapter", "Video", "Time", "Model", "sep", "blank"}

RECURSIVE HeaderSkipCount(_)
HeaderSkipCount(lines) ==
  IF lines = <<>> THEN 0
  ELSE IF IsHeaderSkipped(Head(lines)) THEN 1 + HeaderSkipCount(Tail(lines))
  ELSE 0

\* the lines the parser skips as header
ParserHeader(lines) == SubSeq(lines, 1, HeaderSkipCount(lines))

\* transcript_lines: everything from the first non-header line on
TranscriptLines(lines) == SubSeq(lines, HeaderSkipCount(lines) + 1, Len(lines))

WordCount(t) == Len(t)

\* end_seconds inference for transcript_lines[i] (a matching line)
InferEnd(tl, i) ==
  LET start == LabelStart(tl[i])
      wc    == WordCount(tl[i].text)
      est   == wc * 4                  \* word_count / 2.5 seconds, in tenths
  IN IF i + 1 <= Len(tl)
     THEN IF TimestampMatch(tl[i + 1])
          THEN LET next_start == LabelStart(tl[i + 1])
                   gap == next_start - start
               IN IF gap < LargeGapSeconds * Scale
                  THEN Min(next_start, start + MaxSegmentDuration * Scale)
                  ELSE Min(start + est, start + MaxSegmentDuration * Scale)
          ELSE start + DefaultDuration * Scale
     ELSE Min(start + est, start + LastSegmentCap * Scale)

SegmentAt(tl, i) ==
  [start_seconds |-> LabelStart(tl[i]),
   end_seconds   |-> InferEnd(tl, i),
   text          |-> tl[i].text,
   timestamp_str |-> [min |-> tl[i].min, sec |-> tl[i].sec]]

RECURSIVE ParseFrom(_, _)
ParseFrom(tl, i) ==
  IF i > Len(tl) THEN <<>>
  ELSE IF TimestampMatch(tl[i]) THEN <<SegmentAt(tl, i)>> \o ParseFrom(tl, i + 1)
  ELSE ParseFrom(tl, i + 1)

parse_transcript_file(lines) == ParseFrom(TranscriptLines(lines), 1)

\* get_chapter_time_range: start of the declared range ("Time:" line among
\* the first 10 lines), 0 if there is none; in tenths
RECURSIVE TimeStartFrom(_, _)
TimeStartFrom(lines, i) ==
  IF i > Len(lines) \/ i > 10 THEN 0
  ELSE IF lines[i].kind = "Time" /\ Digits2(lines[i].min) = LabelDigits
       THEN (lines[i].min * 60 + lines[i].sec) * Scale
       ELSE TimeStartFrom(lines, i + 1)

get_chapter_time_range(lines) == TimeStartFrom(lines, 1)

\* --------------------------------------------------------- duplicate tests
\* an overlap test that treats ranges exactly `tolerance` apart as separate
segments_overlap_strict(s1, e1, s2, e2, tolerance) ==
  ~(e1 + tolerance <= s2 \/ e2 + tolerance <= s1)

segments_overlap(s1, e1, s2, e2, tolerance) ==
  ~(e1 + tolerance < s2 \/ e2 + tolerance < s1)

\* word_overlap = len(a & b) / len(a) > 0.5, for a non-empty
WordOverlapHigh(a, b) ==
  /\ Cardinality(a) > 0
  /\ 2 * Cardinality(a \cap b) > Cardinality(a)

\* the inner loop body shared by the pre-check and the sub-segment check:
\* time overlap with `seg` and more than half of the first ten words in it
MatchesExisting(start, end, text, seg) ==
  /\ segments_overlap(start, end, seg.start_seconds, seg.end_seconds,
                      ToleranceSeconds * Scale)
  /\ WordOverlapHigh(FirstWords(text), FirstWords(seg.text))

\* a pre-check that never finds a gap covered
AlreadyCovered_never(missing, existing) == FALSE

\* pre-check of one gap against existing_segments
AlreadyCovered(missing, existing) ==
  \E k \in 1..Len(existing) :
     MatchesExisting(missing.start_seconds, missing.end_seconds,
                     missing.base_text, existing[k])

\* a duplicate check that allows no tolerance on the time ranges
IsDuplicate_noTolerance(final_start, final_end, text, existing) ==
  \E k \in 1..Len(existing) :
     /\ segments_overlap(final_start, final_end, existing[k].start_seconds,
                         existing[k].end_seconds, 0)
     /\ WordOverlapHigh(FirstWords(text), FirstWords(existing[k].text))

\* duplicate check of one new sub-segment against existing_segments
IsDuplicate(final_start, final_end, text, existing) ==
  \E k \in 1..Len(existing) :
     MatchesExisting(final_start, final_end, text, existing[k])

\* the sub-segments of one engine result that are accepted, as Segments
RECURSIVE AcceptedFrom(_, _, _)
AcceptedFrom(missing, subs, existing) ==
  IF subs = <<>> THEN <<>>
  ELSE LET seg == Head(subs)
           final_start == missing.start_seconds + seg.start
           final_end   == missing.start_seconds + seg.end
           rest == AcceptedFrom(missing, Tail(subs), existing)
       IN IF IsDuplicate(final_start, final_end, seg.text, existing)
          THEN rest
          ELSE <<[start_seconds |-> final_start,
                  end_seconds   |-> final_end,
                  text          |-> seg.text,
                  timestamp_str |-> FormatLabel(final_start)]>> \o rest

\* ---------------------------------------------------------------- rewrite
\* list.sort(key=lambda s: s.start_seconds): stable
RECURSIVE InsertByStart(_, _)
InsertByStart(sorted, x) ==
  IF sorted = <<>> THEN <<x>>
  ELSE IF Head(sorted).start_seconds <= x.start_seconds
       THEN <<Head(sorted)>> \o InsertByStart(Tail(sorted), x)
       ELSE <<x>> \o sorted

\* a sort that puts the latest start first
RECURSIVE InsertByStart_descending(_, _)
InsertByStart_descending(sorted, x) ==
  IF sorted = <<>> THEN <<x>>
  ELSE IF Head(sorted).start_seconds >= x.start_seconds
       THEN <<Head(sorted)>> \o InsertByStart_descending(Tail(sorted), x)
       ELSE <<x>> \o sorted

RECURSIVE SortByStart_descending(_)
SortByStart_descending(segs) ==
  IF segs = <<>> THEN <<>>
  ELSE InsertByStart_descending(SortByStart_descending(SubSeq(segs, 1, Len(segs) - 1)),
                                segs[Len(segs)])

\* a merge that forgets to sort
SortByStart_unsorted(segs) == segs

RECURSIVE SortByStart(_)
SortByStart(segs) ==
  IF segs = <<>> THEN <<>>
  ELSE InsertByStart(SortByStart(SubSeq(segs, 1, Len(segs) - 1)), segs[Len(segs)])

\* a header copy that stops before the separator line
RECURSIVE RewriteHeader_noSeparator(_)
RewriteHeader_noSeparator(lines) ==
  IF lines = <<>> THEN <<>>
  ELSE IF Head(lines).kind = "sep" THEN <<>>
  ELSE <<Head(lines)>> \o RewriteHeader_noSeparator(Tail(lines))

\* header_lines: every line up to and including the first separator line
RECURSIVE RewriteHeader(_)
RewriteHeader(lines) ==
  IF lines = <<>> THEN <<>>
  ELSE IF Head(lines).kind = "sep" THEN <<Head(lines)>>
  ELSE <<Head(lines)>> \o RewriteHeader(Tail(lines))

SegmentLines(segs) == [i \in 1..Len(segs) |-> SegLine(segs[i].timestamp_str, segs[i].text)]

\* updated_content: header, one blank line, the sorted union
RewrittenFile(lines, existing, new) ==
  RewriteHeader(lines) \o <<BlankLine>> \o SegmentLines(SortByStart(existing \o new))


\* ------------------------------------------------------------- environment
\* accurate-pass files as the transcribers of the repository write them:
\* Chapter, Video, Time, (Model,) a separator of '=', a blank line, then one
\* '[MM:SS] text' line per segment with MM = int(start // 60) printed :02d
Header(withModel, chapterStart) ==
  <<HeaderLine("Chapter"), HeaderLine("Video"), TimeLine(chapterStart)>>
  \o (IF withModel THEN <<HeaderLine("Model")>> ELSE <<>>)
  \o <<HeaderLine("sep"), BlankLine>>

WrittenLine(start, t) == SegLine(FormatLabel(start), t)

InitialFiles ==
  { Header(TRUE, 0)   \o <<WrittenLine(100, T_abcd), WrittenLine(200, T_next)>>,
    Header(FALSE, 60) \o <<WrittenLine(100, T_abcd), WrittenLine(400, T_next)>>,
    Header(TRUE, 0)   \o <<WrittenLine(100, T_abcd), WrittenLine(60050, T_late)>>,
    Header(TRUE, 6060) \o <<WrittenLine(100, T_next), WrittenLine(610, T_abcd)>> }

\* MissingSegment records the comparison can hand to the repair
GapIds == 1..5
Gap(g) ==
  CASE g = 1 -> [start_seconds |-> 100, end_seconds |-> 180, base_text |-> T_abcd]
    [] g = 2 -> [start_seconds |-> 120, end_seconds |-> 200, base_text |-> T_zeta]
    [] g = 3 -> [start_seconds |-> 300, end_seconds |-> 380, base_text |-> T_late]
    [] g = 4 -> [start_seconds |-> 500, end_seconds |-> 560, base_text |-> T_next]
    [] g = 5 -> [start_seconds |-> 59950, end_seconds |-> 60030, base_text |-> T_zeta]

\* gap lists are in ascending order and never within the 2-second merge
\* distance of each other (find_missing_segments merges such gaps)
GapLists ==
  { s \in UNION {[1..n -> GapIds] : n \in 0..MaxGaps} :
      \A k \in 1..(Len(s) - 1) :
         Gap(s[k + 1]).start_seconds > Gap(s[k]).end_seconds + 2 * Scale }

\* sub-segments the engine can return, clip-relative
SubIds == 1..3
Sub(n) ==
  CASE n = 1 -> [start |-> 0,  end |-> 20, text |-> T_opc]
    [] n = 2 -> [start |-> 75, end |-> 90, text |-> T_Abc]
    [] n = 3 -> [start |-> 5,  end |-> 25, text |-> T_empty]

\* result['segments'] of one transcribe call; <<>> is the failed call
EngineResults ==
  { [k \in 1..Len(ids) |-> Sub(ids[k])] :
      ids \in { s \in UNION {[1..n -> SubIds] : n \in 0..MaxSubs} :
                  \A k \in 1..(Len(s) - 1) : s[k] < s[k + 1] } }

AudioExtensions == <<".mp3", ".m4a", ".webm", ".opus">>
AudioDirs == { {}, {".mp3", ".webm"}, {".m4a", ".webm", ".opus"} }

\* first candidate that exists, "none" if there is none
RECURSIVE FirstExisting(_, _)
FirstExisting(exts, present) ==
  IF exts = <<>> THEN "none"
  ELSE IF Head(exts) \in present THEN Head(exts)
  ELSE FirstExisting(Tail(exts), present)

\* a lookup that tries the candidates in the opposite order
FindAudio_reversed(present) ==
  FirstExisting(<<".opus", ".webm", ".m4a", ".mp3">>, present)

FindAudio(present) == FirstExisting(AudioExtensions, present)

\* clip_filename: "{stem}_{int(start_time)}_{int(end_time)}.{fmt}"
ClipName(abs_start, abs_end) == <<abs_start \div Scale, abs_end \div Scale>>

\* ------------------------------------------------------------ characters
\* the characters of each word of the vocabulary
Chars(w) ==
  CASE w = "alpha" -> <<"a", "l", "p", "h", "a">>
    [] w = "Alpha" -> <<"A", "l", "p", "h", "a">>
    [] w = "beta"  -> <<"b", "e", "t", "a">>
    [] w = "gamma" -> <<"g", "a", "m", "m", "a">>
    [] w = "delta" -> <<"d", "e", "l", "t", "a">>
    [] w = "next"  -> <<"n", "e", "x", "t">>
    [] w = "thing" -> <<"t", "h", "i", "n", "g">>
    [] w = "here"  -> <<"h", "e", "r", "e">>
    [] w = "there" -> <<"t", "h", "e", "r", "e">>
    [] w = "late"  -> <<"l", "a", "t", "e">>
    [] w = "words" -> <<"w", "o", "r", "d", "s">>
    [] w = "omega" -> <<"o", "m", "e", "g", "a">>
    [] w = "psi"   -> <<"p", "s", "i">>
    [] w = "chi"   -> <<"c", "h", "i">>
    [] w = "zeta"  -> <<"z", "e", "t", "a">>
    [] w = "eta"   -> <<"e", "t", "a">>
    [] w = "theta" -> <<"t", "h", "e", "t", "a">>
    [] w = "um"    -> <<"u", "m">>
    [] w = "ok"    -> <<"o", "k">>

\* " ".join(parts) for a list of strings
RECURSIVE JoinSpace(_)
JoinSpace(parts) ==
  IF parts = <<>> THEN <<>>
  ELSE IF Len(parts) = 1 THEN parts[1]
  ELSE parts[1] \o <<" ">> \o JoinSpace(Tail(parts))

\* the text as the file has it
RawChars(t) == JoinSpace([k \in 1..Len(t) |-> Chars(t[k])])
\* text.lower() (a parsed text has no outer blanks, .strip() changes nothing)
LowerChars(t) == JoinSpace([k \in 1..Len(t) |-> Chars(Lower(t[k]))])

\* `a in b` for strings
Contains(b, a) ==
  \E o \in 0..(Len(b) - Len(a)) : SubSeq(b, o + 1, o + Len(a)) = a

\* text[:n]
Prefix(q, n) == SubSeq(q, 1, Min(Len(q), n))

T_um == <<"um", "ok">>
T_hnp  == <<"here", "next", "psi">>
T_pce  == <<"psi", "chi", "eta">>
T_tn   == <<"there", "next">>
T_encp == <<"eta", "next", "chi", "psi">>
T_npc  == <<"next", "psi", "chi">>
T_el   == <<"eta", "late">>
T_gdn  == <<"gamma", "delta", "next">>

\* ---------------------------------------------------- find_missing_segments
ShortTextLimit == 10       \* if len(base_text_lower) < 10
MeaningfulLength == 3      \* if len(w) > 3
SetWordLength == 2         \* if len(w) > 2
PhraseLength == 3          \* base_words_list[j:j+3]
ContextLimit == 100        \* .text[:100]
MergeDistance == 2         \* current.end_seconds + 2

\* the segment is skipped as filler
IsShortText_never(t) == FALSE

IsShortText(t) == Len(LowerChars(t)) < ShortTextLimit

\* number of list entries that occur in the string
RECURSIVE CountFound(_, _)
CountFound(words, str) ==
  IF words = <<>> THEN 0
  ELSE (IF Contains(str, Chars(Head(words))) THEN 1 ELSE 0)
       + CountFound(Tail(words), str)

LongerThan(t, n) ==
  LET l == LowerText(t)
      RECURSIVE Keep(_)
      Keep(k) == IF k > Len(l) THEN <<>>
                 ELSE (IF Len(Chars(l[k])) > n THEN <<l[k]>> ELSE <<>>) \o Keep(k + 1)
  IN Keep(1)

\* Method 1, first test: base_text_lower in large_text_lower
SubstringCovered(base_text, large_text) ==
  Contains(LowerChars(large_text), LowerChars(base_text))

\* a word test that accepts half of the meaningful words
MeaningfulWordsCovered_half(base_text, large_text) ==
  LET base_words == LongerThan(base_text, MeaningfulLength)
  IN /\ Len(base_words) > 0
     /\ 2 * CountFound(base_words, LowerChars(large_text)) >= Len(base_words)

\* Method 1, second test: words_found / len(base_words) >= 0.7
MeaningfulWordsCovered(base_text, large_text) ==
  LET base_words == LongerThan(base_text, MeaningfulLength)
  IN /\ Len(base_words) > 0
     /\ 10 * CountFound(base_words, LowerChars(large_text)) >= 7 * Len(base_words)

\* Method 2: len(common_words) / len(base_words_set) >= 0.8
WordSetCovered(base_text, large_text) ==
  LET bw == LongerThan(base_text, SetWordLength)
      lw == LongerThan(large_text, SetWordLength)
      base_words_set  == {bw[k] : k \in 1..Len(bw)}
      large_words_set == {lw[k] : k \in 1..Len(lw)}
  IN /\ Cardinality(base_words_set) > 0
     /\ 5 * Cardinality(base_words_set \cap large_words_set)
          >= 4 * Cardinality(base_words_set)

\* large_text_combined
LargeTextCombined(large_segments) ==
  JoinSpace([k \in 1..Len(large_segments) |-> LowerChars(large_segments[k].text)])

\* Method 3: some 3-word phrase of the base text is in large_text_combined
PhraseCovered(base_text, large_segments) ==
  LET base_words_list == LowerText(base_text)
  IN /\ Len(base_words_list) >= PhraseLength
     /\ \E j \in 1..(Len(base_words_list) - PhraseLength + 1) :
           Contains(LargeTextCombined(large_segments),
                    LowerChars(SubSeq(base_words_list, j, j + PhraseLength - 1)))

\* a coverage test that looks for 3-word phrases only
BaseCovered_phraseOnly(base_text, large_segments) ==
  PhraseCovered(base_text, large_segments)

\* base_covered after the three methods
BaseCovered(base_text, large_segments) ==
  \/ \E k \in 1..Len(large_segments) :
        \/ SubstringCovered(base_text, large_segments[k].text)
        \/ MeaningfulWordsCovered(base_text, large_segments[k].text)
  \/ \E k \in 1..Len(large_segments) :
        WordSetCovered(base_text, large_segments[k].text)
  \/ PhraseCovered(base_text, large_segments)

\* the base segment at index k is appended to missing_segments
IsReported(base_segments, large_segments, k) ==
  /\ ~IsShortText(base_segments[k].text)
  /\ ~BaseCovered(base_segments[k].text, large_segments)

NoContext == <<"None">>

\* the MissingSegment built for base_segments[k]
MissingAt(base_segments, k) ==
  [start_seconds  |-> base_segments[k].start_seconds,
   end_seconds    |-> base_segments[k].end_seconds,
   duration       |-> base_segments[k].end_seconds - base_segments[k].start_seconds,
   base_text      |-> base_segments[k].text,
   context_before |-> IF k > 1
                      THEN Prefix(RawChars(base_segments[k - 1].text), ContextLimit)
                      ELSE NoContext,
   context_after  |-> IF k < Len(base_segments)
                      THEN Prefix(RawChars(base_segments[k + 1].text), ContextLimit)
                      ELSE NoContext]

\* missing_segments before merging
RECURSIVE UncoveredFrom(_, _, _)
UncoveredFrom(base_segments, large_segments, k) ==
  IF k > Len(base_segments) THEN <<>>
  ELSE (IF IsReported(base_segments, large_segments, k)
        THEN <<MissingAt(base_segments, k)>> ELSE <<>>)
       \o UncoveredFrom(base_segments, large_segments, k + 1)

Max(a, b) == IF a >= b THEN a ELSE b

\* a merge test that leaves out the boundary case
CanMerge_strict(current, next_seg) ==
  next_seg.start_seconds < current.end_seconds + MergeDistance * Scale

\* if next_seg.start_seconds <= current.end_seconds + 2
CanMerge(current, next_seg) ==
  next_seg.start_seconds <= current.end_seconds + MergeDistance * Scale

\* the four assignments to `current` of a merge
MergeInto(current, next_seg) ==
  LET end == Max(current.end_seconds, next_seg.end_seconds)
  IN [current EXCEPT !.end_seconds   = end,
                     !.duration      = end - current.start_seconds,
                     !.base_text     = current.base_text \o next_seg.base_text,
                     !.context_after = next_seg.context_after]

RECURSIVE MergeFrom(_, _)
MergeFrom(current, rest) ==
  IF rest = <<>> THEN <<current>>
  ELSE IF CanMerge(current, Head(rest))
       THEN MergeFrom(MergeInto(current, Head(rest)), Tail(rest))
       ELSE <<current>> \o MergeFrom(Head(rest), Tail(rest))

\* `if len(missing_segments) > 1:` merge adjacent gaps
MergeGaps(missing) ==
  IF Len(missing) > 1 THEN MergeFrom(missing[1], Tail(missing)) ELSE missing

\* [seg for seg in missing_segments if seg.duration >= min_gap_seconds]
RECURSIVE FilterByDuration(_, _)
FilterByDuration(missing, min_gap_seconds) ==
  IF missing = <<>> THEN <<>>
  ELSE (IF Head(missing).duration >= min_gap_seconds THEN <<Head(missing)>> ELSE <<>>)
       \o FilterByDuration(Tail(missing), min_gap_seconds)

\* a comparison that filters the uncovered segments before merging them
find_missing_segments_filterFirst(base_segments, large_segments, min_gap_seconds) ==
  MergeGaps(FilterByDuration(UncoveredFrom(base_segments, large_segments, 1),
                             min_gap_seconds))

find_missing_segments(base_segments, large_segments, min_gap_seconds) ==
  IF base_segments = <<>> THEN <<>>
  ELSE FilterByDuration(MergeGaps(UncoveredFrom(base_segments, large_segments, 1)),
                        min_gap_seconds)

\* ------------------------------------------------------------------- state
VARIABLES
  file,               \* lines of the accurate-pass transcript file
  audio_files,        \* extensions for which {video_id}{ext} exists
  clips,              \* clip files present in clips_dir
  missing_segments,   \* argument: the gap list (ids into Gap)
  engine,             \* what transcribe returns for a gap's clip, once known
  clipper,            \* whether the transcoder succeeds on a gap, once known
  pc,                 \* "call", "loop", "done"
  run,                \* number of the current call
  i,                  \* index of the gap being processed
  chapter_start,
  audio_path,
  existing_segments,
  new_segments,
  result,             \* return value of the current call
  prev_result,        \* return value of the call before it
  file_at_entry,      \* the file when the current call began
  log,                \* logger / print output of the current call
  calls               \* calls to the clipper and the engine in the current call

vars == <<file, audio_files, clips, missing_segments, engine, clipper, pc, run, i,
          chapter_start, audio_path, existing_segments, new_segments, result,
          prev_result, file_at_entry, log, calls>>

\* compare_chapter_transcripts: arguments, locals, return value
VARIABLES
  base_file,          \* the file find_matching_files returned, "None" if none
  large_file,
  min_gap_seconds,    \* in tenths
  base_segments,
  large_segments,
  comparison,         \* the returned record
  cmp_pc              \* "idle", "call", "done", "raised"

cmp_vars == <<base_file, large_file, min_gap_seconds, base_segments, large_segments,
              comparison, cmp_pc>>

\* find_matching_files: the two directories and the returned pair
VARIABLES
  base_dir,           \* files of the base directory, in glob order
  large_dir,
  chapter_num,
  matched,            \* the returned pair, as indexes into the directories
  match_pc            \* "idle", "call", "done"

match_vars == <<base_dir, large_dir, chapter_num, matched, match_pc>>

\* main
VARIABLES
  chapters,           \* per chapter of the batch, its pair of files
  fix,                \* args.fix
  chapter_index,      \* position in chapter_nums
  results,
  summary_printed,
  fix_index,          \* position in results of the --fix loop
  fixed_count,
  rewritten,          \* chapters whose accurate-pass file a repair has rewritten
  attempted,          \* positions in results retranscribe_missing_segments was called for
  raised,             \* the exception that left main, "None" if none
  main_pc             \* "idle", "loop", "comparing", "fix", "repairing", "exit"

main_vars == <<chapters, fix, chapter_index, results, summary_printed, fix_index,
               fixed_count, rewritten, attempted, raised, main_pc>>

\* two repair calls on the same accurate-pass file, each with its own locals
VARIABLES
  shared_file,        \* the accurate-pass file both calls read and rewrite
  pass_gap,           \* per call, its gap
  pass_pc,            \* per call: "idle", "read", "gaps", "write", "done"
  pass_existing,      \* per call, existing_segments
  pass_new,           \* per call, new_segments
  pass_result,        \* per call, the return value
  pass_read_after,    \* per call, how many rewrites had happened when it read
  heard,              \* what the engine returns for a gap's clip, once known
  write_order,        \* the calls that rewrote the file, in order
  first_written       \* the file as the first rewrite left it

race_vars == <<shared_file, pass_gap, pass_pc, pass_existing, pass_new, pass_result,
               pass_read_after, heard, write_order, first_written>>

all_vars == <<vars, cmp_vars, match_vars, main_vars, race_vars>>

NoRecord == [error |-> "unset"]
NoMatch == [base |-> 0, large |-> 0]

CompareIdle ==
  /\ base_file = "None"
  /\ large_file = "None"
  /\ min_gap_seconds = 0
  /\ base_segments = <<>>
  /\ large_segments = <<>>
  /\ comparison = NoRecord
  /\ cmp_pc = "idle"

MatchIdle ==
  /\ base_dir = <<>>
  /\ large_dir = <<>>
  /\ chapter_num = 0
  /\ matched = NoMatch
  /\ match_pc = "idle"

MainIdle ==
  /\ chapters = <<>>
  /\ fix = FALSE
  /\ chapter_index = 0
  /\ results = <<>>
  /\ summary_printed = FALSE
  /\ fix_index = 0
  /\ fixed_count = 0
  /\ rewritten = {}
  /\ attempted = <<>>
  /\ raised = "None"
  /\ main_pc = "idle"

Passes == {1, 2}

RaceIdle ==
  /\ shared_file = <<>>
  /\ pass_gap = [p \in Passes |-> 0]
  /\ pass_pc = [p \in Passes |-> "idle"]
  /\ pass_existing = [p \in Passes |-> <<>>]
  /\ pass_new = [p \in Passes |-> <<>>]
  /\ pass_result = [p \in Passes |-> "None"]
  /\ pass_read_after = [p \in Passes |-> 0]
  /\ heard = [g \in GapIds |-> [known |-> FALSE, segments |-> <<>>]]
  /\ write_order = <<>>
  /\ first_written = <<>>

Init ==
  /\ file \in InitialFiles
  /\ audio_files \in AudioDirs
  /\ clips = {}
  /\ missing_segments \in GapLists
  /\ engine = [g \in GapIds |-> [known |-> FALSE, segments |-> <<>>]]
  /\ clipper = [g \in GapIds |-> "unset"]
  /\ pc = "call"
  /\ run = 1
  /\ i = 0
  /\ chapter_start = 0
  /\ audio_path = "none"
  /\ existing_segments = <<>>
  /\ new_segments = <<>>
  /\ result = "None"
  /\ prev_result = "None"
  /\ file_at_entry = file
  /\ log = <<>>
  /\ calls = <<>>
  /\ CompareIdle
  /\ MatchIdle
  /\ MainIdle
  /\ RaceIdle

Msg(m, k) == [msg |-> m, gap |-> k]
Call(op, k, audio, a, b) == [op |-> op, gap |-> k, audio |-> audio, start |-> a, end |-> b]

\* ------------------------------------------- retranscribe_missing_segments
\* `if not missing_segments: return True`
EnterNoGaps ==
  /\ pc = "call"
  /\ missing_segments = <<>>
  /\ result' = "True"
  /\ pc' = "done"
  /\ UNCHANGED <<file, audio_files, clips, missing_segments, engine, clipper, run, i,
                 chapter_start, audio_path, existing_segments, new_segments,
                 prev_result, file_at_entry, log, calls>>
  /\ UNCHANGED <<cmp_vars, match_vars, main_vars, race_vars>>

\* no candidate audio file: logger.error, return False
EnterNoAudio ==
  /\ pc = "call"
  /\ missing_segments # <<>>
  /\ FindAudio(audio_files) = "none"
  /\ chapter_start' = get_chapter_time_range(file)
  /\ log' = Append(log, Msg("audio_not_found", 0))
  /\ result' = "False"
  /\ pc' = "done"
  /\ UNCHANGED <<file, audio_files, clips, missing_segments, engine, clipper, run, i,
                 audio_path, existing_segments, new_segments, prev_result,
                 file_at_entry, calls>>
  /\ UNCHANGED <<cmp_vars, match_vars, main_vars, race_vars>>

\* audio found: parse the existing transcript and enter the gap loop
EnterLoop ==
  /\ pc = "call"
  /\ missing_segments # <<>>
  /\ FindAudio(audio_files) # "none"
  /\ chapter_start' = get_chapter_time_range(file)
  /\ audio_path' = FindAudio(audio_files)
  /\ existing_segments' = parse_transcript_file(file)
  /\ new_segments' = <<>>
  /\ i' = 1
  /\ pc' = "loop"
  /\ UNCHANGED <<file, audio_files, clips, missing_segments, engine, clipper, run,
                 result, prev_result, file_at_entry, log, calls>>
  /\ UNCHANGED <<cmp_vars, match_vars, main_vars, race_vars>>

InLoop == pc = "loop" /\ i <= Len(missing_segments)
Missing == Gap(missing_segments[i])
AbsStart == chapter_start + Missing.start_seconds
AbsEnd == chapter_start + Missing.end_seconds
ClipPath == ClipName(AbsStart, AbsEnd)

\* the pre-check finds the gap covered: print, continue
GapSkip ==
  /\ InLoop
  /\ AlreadyCovered(Missing, existing_segments)
  /\ log' = Append(log, Msg("skip_covered", i))
  /\ i' = i + 1
  /\ UNCHANGED <<file, audio_files, clips, missing_segments, engine, clipper, pc, run,
                 chapter_start, audio_path, existing_segments, new_segments, result,
                 prev_result, file_at_entry, calls>>
  /\ UNCHANGED <<cmp_vars, match_vars, main_vars, race_vars>>

\* AudioClipper.clip_audio: None for an empty range, the existing clip file
\* if there is one, else whatever the transcoder does
ClipOutcomes(g) ==
  IF AbsEnd <= AbsStart THEN {"fail"}
  ELSE IF ClipPath \in clips THEN {"cached"}
  ELSE IF clipper[g] = "unset" THEN {"ok", "fail"}
  ELSE {clipper[g]}

RememberClip(g, o) ==
  IF o \in {"ok", "fail"} /\ AbsEnd > AbsStart
  THEN [clipper EXCEPT ![g] = o] ELSE clipper

\* clip_audio returns no clip: logger.error, continue
GapClipFail ==
  /\ InLoop
  /\ ~AlreadyCovered(Missing, existing_segments)
  /\ "fail" \in ClipOutcomes(missing_segments[i])
  /\ clipper' = RememberClip(missing_segments[i], "fail")
  /\ calls' = Append(calls, Call("clip", i, audio_path, AbsStart, AbsEnd))
  /\ log' = log \o <<Msg("clipping", i), Msg("clip_failed", i)>>
  /\ i' = i + 1
  /\ UNCHANGED <<file, audio_files, clips, missing_segments, engine, pc, run,
                 chapter_start, audio_path, existing_segments, new_segments, result,
                 prev_result, file_at_entry>>
  /\ UNCHANGED <<cmp_vars, match_vars, main_vars, race_vars>>

EngineOutcomes(g) ==
  IF engine[g].known THEN {engine[g].segments} ELSE EngineResults

\* a failed transcription that leaves the gap loop instead of continuing
GapTranscribeFail_abort ==
  /\ InLoop
  /\ ~AlreadyCovered(Missing, existing_segments)
  /\ \E o \in ClipOutcomes(missing_segments[i]) \ {"fail"} :
        clipper' = RememberClip(missing_segments[i], o)
  /\ <<>> \in EngineOutcomes(missing_segments[i])
  /\ engine' = [engine EXCEPT ![missing_segments[i]] = [known |-> TRUE, segments |-> <<>>]]
  /\ clips' = clips \cup {ClipPath}
  /\ calls' = calls \o <<Call("clip", i, audio_path, AbsStart, AbsEnd),
                         Call("transcribe", i, audio_path, ClipPath[1], ClipPath[2])>>
  /\ log' = log \o <<Msg("clipping", i), Msg("transcribing", i),
                     Msg("transcribe_failed", i)>>
  /\ i' = Len(missing_segments) + 1
  /\ UNCHANGED <<file, audio_files, missing_segments, pc, run, chapter_start,
                 audio_path, existing_segments, new_segments, result, prev_result,
                 file_at_entry>>
  /\ UNCHANGED <<cmp_vars, match_vars, main_vars, race_vars>>

\* a failed transcription that logs no error
GapTranscribeFail_silent ==
  /\ InLoop
  /\ ~AlreadyCovered(Missing, existing_segments)
  /\ \E o \in ClipOutcomes(missing_segments[i]) \ {"fail"} :
        clipper' = RememberClip(missing_segments[i], o)
  /\ <<>> \in EngineOutcomes(missing_segments[i])
  /\ engine' = [engine EXCEPT ![missing_segments[i]] = [known |-> TRUE, segments |-> <<>>]]
  /\ clips' = clips \cup {ClipPath}
  /\ calls' = calls \o <<Call("clip", i, audio_path, AbsStart, AbsEnd),
                         Call("transcribe", i, audio_path, ClipPath[1], ClipPath[2])>>
  /\ log' = log \o <<Msg("clipping", i), Msg("transcribing", i)>>
  /\ i' = i + 1
  /\ UNCHANGED <<file, audio_files, missing_segments, pc, run, chapter_start,
                 audio_path, existing_segments, new_segments, result, prev_result,
                 file_at_entry>>
  /\ UNCHANGED <<cmp_vars, match_vars, main_vars, race_vars>>

\* the clip exists, transcribe returns nothing: logger.error, continue
GapTranscribeFail ==
  /\ InLoop
  /\ ~AlreadyCovered(Missing, existing_segments)
  /\ \E o \in ClipOutcomes(missing_segments[i]) \ {"fail"} :
        clipper' = RememberClip(missing_segments[i], o)
  /\ <<>> \in EngineOutcomes(missing_segments[i])
  /\ engine' = [engine EXCEPT ![missing_segments[i]] = [known |-> TRUE, segments |-> <<>>]]
  /\ clips' = clips \cup {ClipPath}
  /\ calls' = calls \o <<Call("clip", i, audio_path, AbsStart, AbsEnd),
                         Call("transcribe", i, audio_path, ClipPath[1], ClipPath[2])>>
  /\ log' = log \o <<Msg("clipping", i), Msg("transcribing", i),
                     Msg("transcribe_failed", i)>>
  /\ i' = i + 1
  /\ UNCHANGED <<file, audio_files, missing_segments, pc, run, chapter_start,
                 audio_path, existing_segments, new_segments, result, prev_result,
                 file_at_entry>>
  /\ UNCHANGED <<cmp_vars, match_vars, main_vars, race_vars>>

\* the clip is transcribed: keep the sub-segments that are no duplicates,
\* then unlink the clip
GapTranscribeOk ==
  /\ InLoop
  /\ ~AlreadyCovered(Missing, existing_segments)
  /\ \E o \in ClipOutcomes(missing_segments[i]) \ {"fail"} :
        clipper' = RememberClip(missing_segments[i], o)
  /\ \E r \in EngineOutcomes(missing_segments[i]) \ {<<>>} :
        /\ engine' = [engine EXCEPT ![missing_segments[i]] = [known |-> TRUE, segments |-> r]]
        /\ new_segments' = new_segments \o AcceptedFrom(Missing, r, existing_segments)
  /\ clips' = clips \ {ClipPath}
  /\ calls' = calls \o <<Call("clip", i, audio_path, AbsStart, AbsEnd),
                         Call("transcribe", i, audio_path, ClipPath[1], ClipPath[2])>>
  /\ log' = log \o <<Msg("clipping", i), Msg("transcribing", i)>>
  /\ i' = i + 1
  /\ UNCHANGED <<file, audio_files, missing_segments, pc, run, chapter_start,
                 audio_path, existing_segments, result, prev_result, file_at_entry>>
  /\ UNCHANGED <<cmp_vars, match_vars, main_vars, race_vars>>

LoopDone == pc = "loop" /\ i > Len(missing_segments)

\* a call that rewrites the file even when it has nothing to add
FinishNoNew_rewrites ==
  /\ LoopDone
  /\ new_segments = <<>>
  /\ file' = RewrittenFile(file, existing_segments, new_segments)
  /\ log' = Append(log, Msg("no_new_segments", 0))
  /\ result' = "False"
  /\ pc' = "done"
  /\ UNCHANGED <<audio_files, clips, missing_segments, engine, clipper, run, i,
                 chapter_start, audio_path, existing_segments, new_segments,
                 prev_result, file_at_entry, calls>>
  /\ UNCHANGED <<cmp_vars, match_vars, main_vars, race_vars>>

\* `if not new_segments`: logger.warning, return False
FinishNoNew ==
  /\ LoopDone
  /\ new_segments = <<>>
  /\ log' = Append(log, Msg("no_new_segments", 0))
  /\ result' = "False"
  /\ pc' = "done"
  /\ UNCHANGED <<file, audio_files, clips, missing_segments, engine, clipper, run, i,
                 chapter_start, audio_path, existing_segments, new_segments,
                 prev_result, file_at_entry, calls>>
  /\ UNCHANGED <<cmp_vars, match_vars, main_vars, race_vars>>

\* merge, sort, rewrite the file, return True
FinishRewrite ==
  /\ LoopDone
  /\ new_segments # <<>>
  /\ file' = RewrittenFile(file, existing_segments, new_segments)
  /\ log' = Append(log, Msg("updated", 0))
  /\ result' = "True"
  /\ pc' = "done"
  /\ UNCHANGED <<audio_files, clips, missing_segments, engine, clipper, run, i,
                 chapter_start, audio_path, existing_segments, new_segments,
                 prev_result, file_at_entry, calls>>
  /\ UNCHANGED <<cmp_vars, match_vars, main_vars, race_vars>>

\* the same call again: same gap list, same audio, same engine
Retry ==
  /\ pc = "done"
  /\ run < MaxRuns
  /\ run' = run + 1
  /\ prev_result' = result
  /\ result' = "None"
  /\ file_at_entry' = file
  /\ pc' = "call"
  /\ i' = 0
  /\ chapter_start' = 0
  /\ audio_path' = "none"
  /\ existing_segments' = <<>>
  /\ new_segments' = <<>>
  /\ log' = <<>>
  /\ calls' = <<>>
  /\ UNCHANGED <<file, audio_files, clips, missing_segments, engine, clipper>>
  /\ UNCHANGED <<cmp_vars, match_vars, main_vars, race_vars>>

Next ==
  \/ EnterNoGaps
  \/ EnterNoAudio
  \/ EnterLoop
  \/ GapSkip
  \/ GapClipFail
  \/ GapTranscribeFail
  \/ GapTranscribeOk
  \/ FinishNoNew
  \/ FinishRewrite
  \/ Retry

Spec == Init /\ [][Next]_all_vars


\* ------------------------------------------------------ find_matching_files
MaxChapters == 2
MaxEntries == 2
TimeTolerance == 5         \* abs(...) < 5

\* a file of a transcripts directory: the chapter number of its name,
\* whether the name ends in _formatted.txt, and the range of its "Time:"
\* line in whole seconds, if it has one
Entry(c, fm, ht, s, e) ==
  [chapter |-> c, formatted |-> fm, has_time |-> ht, start |-> s, end |-> e]

\* get_file_time_range: the declared range, (0, 0) without a "Time:" line of
\* two-digit minutes
get_file_time_range(entry) ==
  IF /\ entry.has_time
     /\ Digits2(entry.start \div 60) = LabelDigits
     /\ Digits2(entry.end \div 60) = LabelDigits
  THEN <<entry.start, entry.end>>
  ELSE <<0, 0>>

Abs(n) == IF n < 0 THEN -n ELSE n

\* abs(base_start - large_start) < 5 and abs(base_end - large_end) < 5
RangesMatch(base_entry, large_entry) ==
  LET b == get_file_time_range(base_entry)
      l == get_file_time_range(large_entry)
  IN /\ Abs(b[1] - l[1]) < TimeTolerance
     /\ Abs(b[2] - l[2]) < TimeTolerance

\* index of the first TRUE of a list of tests, 0 if there is none
FirstIndex(tests) ==
  IF \E k \in 1..Len(tests) : tests[k]
  THEN CHOOSE k \in 1..Len(tests) : tests[k] /\ \A j \in 1..(k - 1) : ~tests[j]
  ELSE 0

\* glob "{video_id}_chapter{n}_*.txt" without the _formatted.txt files
ChapterFile(dir, n) ==
  FirstIndex([k \in 1..Len(dir) |-> dir[k].chapter = n /\ ~dir[k].formatted])

\* the returned pair, as indexes into the listings (0 for None)
find_matching_files(bdir, ldir, n) ==
  LET b == ChapterFile(bdir, n)
      l == ChapterFile(ldir, n)
      by_time == FirstIndex([k \in 1..Len(ldir) |->
                               ~ldir[k].formatted /\ RangesMatch(bdir[b], ldir[k])])
  IN IF b = 0 THEN [base |-> 0, large |-> 0]
     ELSE IF l # 0 /\ RangesMatch(bdir[b], ldir[l]) THEN [base |-> b, large |-> l]
     ELSE IF by_time # 0 THEN [base |-> b, large |-> by_time]
     ELSE [base |-> b, large |-> l]

BaseEntries ==
  { Entry(c, FALSE, TRUE, 0, 100) : c \in 1..MaxChapters }

BaseDirs ==
  { <<>>, <<Entry(1, TRUE, TRUE, 50, 150)>> }
  \cup { <<b>> : b \in BaseEntries }
  \cup { <<Entry(1, TRUE, TRUE, 50, 150), b>> : b \in BaseEntries }

LargeEntries ==
  { Entry(c, FALSE, TRUE, s, e) : c \in 1..MaxChapters, s \in {0, 4, 5}, e \in {100, 105} }
  \cup { Entry(1, TRUE, TRUE, 0, 100), Entry(1, FALSE, FALSE, 0, 0),
         Entry(2, FALSE, TRUE, 6000, 6100) }

LargeDirs ==
  { d \in UNION {[1..n -> LargeEntries] : n \in 0..MaxEntries} :
      \A j, k \in 1..Len(d) : j # k => d[j] # d[k] }

MatchInit ==
  /\ base_dir \in BaseDirs
  /\ large_dir \in LargeDirs
  /\ chapter_num \in 1..MaxChapters
  /\ matched = NoMatch
  /\ match_pc = "call"

FindMatchingFiles ==
  /\ match_pc = "call"
  /\ matched' = find_matching_files(base_dir, large_dir, chapter_num)
  /\ match_pc' = "done"
  /\ UNCHANGED <<base_dir, large_dir, chapter_num>>
  /\ UNCHANGED <<vars, cmp_vars, main_vars, race_vars>>

MatchNext == FindMatchingFiles

\* --------------------------------------------- compare_chapter_transcripts
DefaultMinGap == 5         \* --min-gap default
T_Ad == <<"Alpha", "delta">>

\* transcripts of either pass, as the transcribers write them; labels are
\* chapter-relative seconds
TranscriptFiles ==
  { Header(TRUE, 0) \o <<WrittenLine(100, T_abcd), WrittenLine(200, T_next)>>,
    Header(TRUE, 0) \o <<WrittenLine(100, T_zeta), WrittenLine(130, T_next)>>,
    Header(TRUE, 0) \o <<WrittenLine(300, T_zeta), WrittenLine(330, T_next),
                         WrittenLine(340, T_opc),  WrittenLine(380, T_abcd)>>,
    Header(TRUE, 0) \o <<WrittenLine(300, T_zeta), WrittenLine(330, T_um),
                         WrittenLine(350, T_opc),  WrittenLine(500, T_next)>>,
    Header(FALSE, 0) \o <<WrittenLine(900, T_zeta), WrittenLine(930, T_next),
                          WrittenLine(960, T_opc),  WrittenLine(1000, T_abcd)>>,
    Header(TRUE, 0) \o <<WrittenLine(100, T_um), WrittenLine(200, T_zeta)>>,
    Header(TRUE, 0) \o <<WrittenLine(100, T_Ad), WrittenLine(200, T_next)>>,
    Header(TRUE, 0) \o <<WrittenLine(100, T_hnp), WrittenLine(200, T_pce)>>,
    Header(TRUE, 0) \o <<WrittenLine(100, T_tn), WrittenLine(200, T_late)>>,
    Header(TRUE, 0) \o <<WrittenLine(100, T_encp), WrittenLine(200, T_late)>>,
    Header(TRUE, 0) \o <<WrittenLine(100, T_npc), WrittenLine(200, T_el)>>,
    Header(TRUE, 0) \o <<WrittenLine(100, T_zeta), WrittenLine(300, T_opc),
                         WrittenLine(500, T_next)>>,
    Header(TRUE, 0) }

NoFile == [exists |-> FALSE, lines |-> <<>>]
FileOf(f) == [exists |-> TRUE, lines |-> f]
FileOptions == {NoFile} \cup {FileOf(f) : f \in TranscriptFiles}

\* --min-gap values: the default, the 2 seconds of the example, no filter
MinGapChoices == {DefaultMinGap * Scale, 2 * Scale, 0}

\* a total that counts the gaps instead of adding their durations
SumDurations_count(missing) == Len(missing)

RECURSIVE SumDurations(_)
SumDurations(missing) ==
  IF missing = <<>> THEN 0 ELSE Head(missing).duration + SumDurations(Tail(missing))

ErrorRecord(e) == [error |-> e, missing_segments |-> <<>>]

\* a comparison that reports both missing files with one message
compare_chapter_transcripts_oneMessage(base, large, min_gap) ==
  IF ~base.exists \/ ~large.exists
  THEN ErrorRecord("Transcript not found")
  ELSE ErrorRecord("Failed to parse transcript")

\* the returned dict; base and large are what find_matching_files returned
compare_chapter_transcripts(base, large, min_gap) ==
  LET base_segs  == parse_transcript_file(base.lines)
      large_segs == parse_transcript_file(large.lines)
      missing    == find_missing_segments(base_segs, large_segs, min_gap)
  IN IF ~base.exists
     THEN ErrorRecord("Base model transcript not found")
     ELSE IF ~large.exists
     THEN ErrorRecord("Large model transcript not found")
     ELSE IF base_segs = <<>>
     THEN ErrorRecord("Failed to parse base model transcript")
     ELSE IF large_segs = <<>>
     THEN ErrorRecord("Failed to parse large model transcript")
     ELSE [base_file              |-> base.lines,
           large_file             |-> large.lines,
           base_segments_count    |-> Len(base_segs),
           large_segments_count   |-> Len(large_segs),
           missing_segments       |-> missing,
           total_missing_duration |-> SumDurations(missing),
           error                  |-> "None"]

\* one call on a pair of files
CompareInit ==
  /\ base_file \in FileOptions
  /\ large_file \in FileOptions
  /\ ~base_file.exists => ~large_file.exists
  /\ min_gap_seconds \in MinGapChoices
  /\ base_segments = <<>>
  /\ large_segments = <<>>
  /\ comparison = NoRecord
  /\ cmp_pc = "call"

\* the call runs to its return
CompareChapter ==
  /\ cmp_pc = "call"
  /\ base_segments' = IF base_file.exists /\ large_file.exists
                      THEN parse_transcript_file(base_file.lines) ELSE <<>>
  /\ large_segments' = IF base_file.exists /\ large_file.exists
                       THEN parse_transcript_file(large_file.lines) ELSE <<>>
  /\ comparison' = compare_chapter_transcripts(base_file, large_file, min_gap_seconds)
  /\ cmp_pc' = "done"
  /\ UNCHANGED <<base_file, large_file, min_gap_seconds>>
  /\ UNCHANGED <<vars, match_vars, main_vars, race_vars>>

\* open() or readlines() of an existing file raises (permissions, encoding,
\* a failing disk); nothing in the function catches it
CompareRaises ==
  /\ cmp_pc = "call"
  /\ base_file.exists
  /\ cmp_pc' = "raised"
  /\ UNCHANGED <<base_file, large_file, min_gap_seconds, base_segments,
                 large_segments, comparison>>
  /\ UNCHANGED <<vars, match_vars, main_vars, race_vars>>

RepairIdle ==
  /\ file = <<>>
  /\ audio_files = {}
  /\ clips = {}
  /\ missing_segments = <<>>
  /\ engine = [g \in GapIds |-> [known |-> FALSE, segments |-> <<>>]]
  /\ clipper = [g \in GapIds |-> "unset"]
  /\ pc = "idle"
  /\ run = 0
  /\ i = 0
  /\ chapter_start = 0
  /\ audio_path = "none"
  /\ existing_segments = <<>>
  /\ new_segments = <<>>
  /\ result = "None"
  /\ prev_result = "None"
  /\ file_at_entry = <<>>
  /\ log = <<>>
  /\ calls = <<>>

CompareNext ==
  \/ CompareChapter
  \/ CompareRaises

CompareSpecInit == CompareInit /\ RepairIdle /\ MatchIdle /\ MainIdle /\ RaceIdle

CompareSpec == CompareSpecInit /\ [][CompareNext]_all_vars

MatchSpecInit == MatchInit /\ RepairIdle /\ CompareIdle /\ MainIdle /\ RaceIdle

MatchSpec == MatchSpecInit /\ [][MatchNext]_all_vars

\* --------------------------------------------------------------------- main
\* the pairs of files the chapters of a batch can have
BatchPairs ==
  LET AN == Header(TRUE, 0) \o <<WrittenLine(100, T_abcd), WrittenLine(200, T_next)>>
      ZNOA == Header(TRUE, 0) \o <<WrittenLine(300, T_zeta), WrittenLine(330, T_next),
                                   WrittenLine(340, T_opc),  WrittenLine(380, T_abcd)>>
  IN { [base |-> FileOf(ZNOA), large |-> FileOf(AN)],
       [base |-> FileOf(AN),   large |-> FileOf(AN)],
       [base |-> FileOf(AN),   large |-> FileOf(Header(TRUE, 0))],
       [base |-> FileOf(AN),   large |-> NoFile] }

Batches == UNION {[1..n -> BatchPairs] : n \in 1..MaxChapters}

MainInit ==
  /\ chapters \in Batches
  /\ fix \in BOOLEAN
  /\ chapter_index = 1
  /\ results = <<>>
  /\ summary_printed = FALSE
  /\ fix_index = 0
  /\ fixed_count = 0
  /\ rewritten = {}
  /\ attempted = <<>>
  /\ raised = "None"
  /\ main_pc = "loop"
  /\ CompareIdle

\* for chapter_num in chapter_nums: result = compare_chapter_transcripts(...)
MainCallCompare ==
  /\ main_pc = "loop"
  /\ chapter_index <= Len(chapters)
  /\ base_file' = chapters[chapter_index].base
  /\ large_file' = chapters[chapter_index].large
  /\ min_gap_seconds' = DefaultMinGap * Scale
  /\ base_segments' = <<>>
  /\ large_segments' = <<>>
  /\ comparison' = NoRecord
  /\ cmp_pc' = "call"
  /\ main_pc' = "comparing"
  /\ UNCHANGED <<chapters, fix, chapter_index, results, summary_printed, fix_index,
                 fixed_count, rewritten, attempted, raised>>
  /\ UNCHANGED <<vars, match_vars, race_vars>>

\* results.append(result)
MainCollect ==
  /\ main_pc = "comparing"
  /\ cmp_pc = "done"
  /\ results' = Append(results, comparison)
  /\ chapter_index' = chapter_index + 1
  /\ cmp_pc' = "idle"
  /\ main_pc' = "loop"
  /\ UNCHANGED <<base_file, large_file, min_gap_seconds, base_segments,
                 large_segments, comparison>>
  /\ UNCHANGED <<chapters, fix, summary_printed, fix_index, fixed_count, rewritten,
                 attempted, raised>>
  /\ UNCHANGED <<vars, match_vars, race_vars>>

\* the call raised: main has no try/except, the exception ends the run
MainPropagate ==
  /\ main_pc = "comparing"
  /\ cmp_pc = "raised"
  /\ raised' = "OSError"
  /\ main_pc' = "exit"
  /\ UNCHANGED <<chapters, fix, chapter_index, results, summary_printed, fix_index,
                 fixed_count, rewritten, attempted>>
  /\ UNCHANGED <<vars, cmp_vars, match_vars, race_vars>>

\* print_comparison_summary(results); then the --fix loop or the return
MainSummary ==
  /\ main_pc = "loop"
  /\ chapter_index > Len(chapters)
  /\ summary_printed' = TRUE
  /\ fix_index' = 1
  /\ main_pc' = IF fix THEN "fix" ELSE "exit"
  /\ UNCHANGED <<chapters, fix, chapter_index, results, fixed_count, rewritten,
                 attempted, raised>>
  /\ UNCHANGED <<vars, cmp_vars, match_vars, race_vars>>

InFix == main_pc = "fix" /\ fix_index <= Len(results)
\* a --fix loop that tries every result without error, gaps or not
ToRepair_noError(r) == r.error = "None"

ToRepair(r) == r.error = "None" /\ r.missing_segments # <<>>

\* if result.get('error') or not result.get('missing_segments'): continue
MainFixSkip ==
  /\ InFix
  /\ ~ToRepair(results[fix_index])
  /\ fix_index' = fix_index + 1
  /\ UNCHANGED <<chapters, fix, chapter_index, results, summary_printed, fixed_count,
                 rewritten, attempted, raised, main_pc>>
  /\ UNCHANGED <<vars, cmp_vars, match_vars, race_vars>>

\* retranscribe_missing_segments(...) is called for results[fix_index]
MainFixCall ==
  /\ InFix
  /\ ToRepair(results[fix_index])
  /\ attempted' = Append(attempted, fix_index)
  /\ main_pc' = "repairing"
  /\ UNCHANGED <<chapters, fix, chapter_index, results, summary_printed, fix_index,
                 fixed_count, rewritten, raised>>
  /\ UNCHANGED <<vars, cmp_vars, match_vars, race_vars>>

\* the call returns True (file rewritten) or False; the loop goes on
MainFixChapter ==
  /\ main_pc = "repairing"
  /\ \E r \in BOOLEAN :
        /\ fixed_count' = IF r THEN fixed_count + 1 ELSE fixed_count
        /\ rewritten' = IF r THEN rewritten \cup {fix_index} ELSE rewritten
  /\ fix_index' = fix_index + 1
  /\ main_pc' = "fix"
  /\ UNCHANGED <<chapters, fix, chapter_index, results, summary_printed, attempted,
                 raised>>
  /\ UNCHANGED <<vars, cmp_vars, match_vars, race_vars>>

\* retranscribe_missing_segments raises while reading or writing the file:
\* nothing catches it
MainFixRaises ==
  /\ main_pc = "repairing"
  /\ raised' = "OSError"
  /\ main_pc' = "exit"
  /\ UNCHANGED <<chapters, fix, chapter_index, results, summary_printed, fix_index,
                 fixed_count, rewritten, attempted>>
  /\ UNCHANGED <<vars, cmp_vars, match_vars, race_vars>>

\* the --fix loop is through: print the count, return
MainReturn ==
  /\ main_pc = "fix"
  /\ fix_index > Len(results)
  /\ main_pc' = "exit"
  /\ UNCHANGED <<chapters, fix, chapter_index, results, summary_printed, fix_index,
                 fixed_count, rewritten, attempted, raised>>
  /\ UNCHANGED <<vars, cmp_vars, match_vars, race_vars>>

MainNext ==
  \/ MainCallCompare
  \/ CompareChapter
  \/ CompareRaises
  \/ MainCollect
  \/ MainPropagate
  \/ MainSummary
  \/ MainFixSkip
  \/ MainFixCall
  \/ MainFixChapter
  \/ MainFixRaises
  \/ MainReturn

MainSpecInit == MainInit /\ RepairIdle /\ MatchIdle /\ RaceIdle

MainSpec == MainSpecInit /\ [][MainNext]_all_vars

\* ------------------------------------- two concurrent repairs of one chapter
\* each call is made with one gap; the audio file exists
RaceInit ==
  /\ shared_file \in InitialFiles
  /\ pass_gap \in [Passes -> GapIds]
  /\ pass_pc = [p \in Passes |-> "call"]
  /\ pass_existing = [p \in Passes |-> <<>>]
  /\ pass_new = [p \in Passes |-> <<>>]
  /\ pass_result = [p \in Passes |-> "None"]
  /\ pass_read_after = [p \in Passes |-> 0]
  /\ heard = [g \in GapIds |-> [known |-> FALSE, segments |-> <<>>]]
  /\ write_order = <<>>
  /\ first_written = <<>>

\* existing_segments = parse_transcript_file(large_file)
PassRead(p) ==
  /\ pass_pc[p] = "call"
  /\ pass_existing' = [pass_existing EXCEPT ![p] = parse_transcript_file(shared_file)]
  /\ pass_read_after' = [pass_read_after EXCEPT ![p] = Len(write_order)]
  /\ pass_pc' = [pass_pc EXCEPT ![p] = "gaps"]
  /\ UNCHANGED <<shared_file, pass_gap, pass_new, pass_result, heard, write_order,
                 first_written>>
  /\ UNCHANGED <<vars, cmp_vars, match_vars, main_vars>>

\* what the engine returns for the clip of gap g; <<>> also stands for a
\* clip that could not be cut
HeardOutcomes(g) ==
  IF heard[g].known THEN {heard[g].segments} ELSE EngineResults

\* the gap loop of the call: skip, or clip, transcribe and keep what is no
\* duplicate of the segments read; `if not new_segments: return False`
PassGaps(p) ==
  /\ pass_pc[p] = "gaps"
  /\ LET g == pass_gap[p]
     IN IF AlreadyCovered(Gap(g), pass_existing[p])
        THEN /\ pass_new' = [pass_new EXCEPT ![p] = <<>>]
             /\ heard' = heard
        ELSE \E r \in HeardOutcomes(g) :
                /\ heard' = [heard EXCEPT ![g] = [known |-> TRUE, segments |-> r]]
                /\ pass_new' = [pass_new EXCEPT ![p] =
                                  AcceptedFrom(Gap(g), r, pass_existing[p])]
  /\ pass_pc' = [pass_pc EXCEPT ![p] = IF pass_new'[p] = <<>> THEN "done" ELSE "write"]
  /\ pass_result' = [pass_result EXCEPT ![p] =
                        IF pass_new'[p] = <<>> THEN "False" ELSE "None"]
  /\ UNCHANGED <<shared_file, pass_gap, pass_existing, pass_read_after, write_order,
                 first_written>>
  /\ UNCHANGED <<vars, cmp_vars, match_vars, main_vars>>

\* a rewrite that parses the file again just before writing it
PassSegments_reread(p) == parse_transcript_file(shared_file)

\* all_segments = existing_segments + new_segments: the segments read at the
\* start of the call
PassSegments(p) == pass_existing[p]

\* the header is read from the file as it is now, the segments are the
\* call's own; the file is written, return True
PassWrite(p) ==
  /\ pass_pc[p] = "write"
  /\ shared_file' = RewrittenFile(shared_file, PassSegments(p), pass_new[p])
  /\ write_order' = Append(write_order, p)
  /\ first_written' = IF write_order = <<>> THEN shared_file' ELSE first_written
  /\ pass_result' = [pass_result EXCEPT ![p] = "True"]
  /\ pass_pc' = [pass_pc EXCEPT ![p] = "done"]
  /\ UNCHANGED <<pass_gap, pass_existing, pass_new, pass_read_after, heard>>
  /\ UNCHANGED <<vars, cmp_vars, match_vars, main_vars>>

RaceNext ==
  \/ \E p \in Passes : PassRead(p)
  \/ \E p \in Passes : PassGaps(p)
  \/ \E p \in Passes : PassWrite(p)

RaceSpecInit == RaceInit /\ RepairIdle /\ CompareIdle /\ MatchIdle /\ MainIdle

RaceSpec == RaceSpecInit /\ [][RaceNext]_all_vars

\* ------------------------------------------------------------------ claims
IsSegLine(line) == line.kind = "seg"
FileSegmentLines(f) == SelectSeq(f, IsSegLine)
LineSeconds(line) == line.min * 60 + line.sec

Returned(r) == pc = "done" /\ result = r
Repaired == Returned("True") /\ missing_segments # <<>>

\* C1: after a call that returns True, the segment lines of the rewritten
\* file are in non-decreasing order of start time.
C1_SortedAfterRepair ==
  Repaired =>
    LET sl == FileSegmentLines(file)
    IN \A k \in 1..(Len(sl) - 1) : LineSeconds(sl[k]) <= LineSeconds(sl[k + 1])

\* a repair that had to place a new segment before an existing one
C1_Witness ==
  /\ Repaired
  /\ existing_segments # <<>>
  /\ new_segments[1].start_seconds
       < existing_segments[Len(existing_segments)].start_seconds


Range(q) == {q[k] : k \in 1..Len(q)}
Count(q, x) == Cardinality({k \in 1..Len(q) : q[k] = x})

\* C2: a second call on the rewritten file, with the same gap list and the
\* same engine output, returns False and leaves the file as it is.
C2_RetryAddsNothing ==
  (pc = "done" /\ run > 1 /\ prev_result = "True" /\ missing_segments # <<>>)
    => (result = "False" /\ file = file_at_entry)

\* C3: after a repair the segment lines are the original segment lines plus
\* the accepted new ones, each exactly once.
C3_ExactUnion ==
  Repaired =>
    LET now    == FileSegmentLines(file)
        before == FileSegmentLines(file_at_entry)
        added  == SegmentLines(new_segments)
    IN \A line \in Range(now) \cup Range(before) \cup Range(added) :
          Count(now, line) = Count(before, line) + Count(added, line)

\* the lines of a file that precede its first segment line
RECURSIVE FilePrefix(_)
FilePrefix(f) ==
  IF f = <<>> \/ IsSegLine(Head(f)) THEN <<>>
  ELSE <<Head(f)>> \o FilePrefix(Tail(f))

\* C4: a repair leaves the header as it was, and what the parser skips as
\* header is what the rewrite copies as header (followed by the one blank
\* line the rewrite writes after it).
C4_HeaderPreserved ==
  Repaired =>
    /\ FilePrefix(file) = FilePrefix(file_at_entry)
    /\ ParserHeader(file_at_entry) = RewriteHeader(file_at_entry) \o <<BlankLine>>
    /\ ParserHeader(file) = ParserHeader(file_at_entry)

C4_Witness ==
  /\ Repaired
  /\ file # file_at_entry
  /\ HeaderLine("Model") \in Range(FilePrefix(file))

Transcribed(k) == \E c \in Range(calls) : c.op = "transcribe" /\ c.gap = k
Returned_segments(k) == engine[missing_segments[k]].segments

\* the duplicate test in the words of the specification: time ranges within
\* 2 seconds of each other, more than half of the first ten words shared
SpecDuplicate(start, end, text, seg) ==
  /\ ~(end + 20 < seg.start_seconds \/ seg.end_seconds + 20 < start)
  /\ 2 * Cardinality(FirstWords(text) \cap FirstWords(seg.text))
       > Cardinality(FirstWords(text))

AllReturnedAreDuplicates ==
  \A k \in 1..Len(missing_segments) :
     Transcribed(k) =>
       \A n \in 1..Len(Returned_segments(k)) :
          LET sub == Returned_segments(k)[n]
              g   == Gap(missing_segments[k])
          IN \E e \in Range(existing_segments) :
                SpecDuplicate(g.start_seconds + sub.start, g.start_seconds + sub.end,
                              sub.text, e)

\* C5: if every sub-segment the engine returned duplicates an existing
\* segment, nothing is added and the call returns False.
C5_AllDuplicatesAddNothing ==
  (pc = "done" /\ missing_segments # <<>> /\ AllReturnedAreDuplicates)
    => (new_segments = <<>> /\ result = "False" /\ file = file_at_entry)

C5_Witness ==
  /\ pc = "done"
  /\ AllReturnedAreDuplicates
  /\ \E k \in 1..Len(missing_segments) : Transcribed(k) /\ Returned_segments(k) # <<>>
  /\ result = "False"

SpecCovered(k) ==
  LET g == Gap(missing_segments[k])
  IN \E e \in Range(existing_segments) :
        SpecDuplicate(g.start_seconds, g.end_seconds, g.base_text, e)

\* C6: for a gap the current segments already cover, neither the clipper nor
\* the engine is called.
C6_CoveredGapNotTranscribed ==
  pc \in {"loop", "done"} =>
    \A k \in 1..Len(missing_segments) :
       SpecCovered(k) => \A c \in Range(calls) : c.gap # k

C6_Witness ==
  /\ pc = "done"
  /\ calls # <<>>
  /\ \E k \in 1..Len(missing_segments) :
        SpecCovered(k) /\ Msg("skip_covered", k) \in Range(log)

\* C7: every clip the clipper produced is deleted once its gap is done,
\* whether the transcription succeeded or failed.
C7_ClipsDeleted ==
  \A c \in Range(calls) :
     (c.op = "clip" /\ c.gap < i) => ClipName(c.start, c.end) \notin clips

Failed(k) == Msg("transcribe_failed", k) \in Range(log)
Processed(k) == \E m \in Range(log) : m.gap = k

RECURSIVE ExpectedNewFrom(_)
ExpectedNewFrom(k) ==
  IF k > Len(missing_segments) THEN <<>>
  ELSE (IF Transcribed(k)
        THEN AcceptedFrom(Gap(missing_segments[k]), Returned_segments(k),
                          existing_segments)
        ELSE <<>>) \o ExpectedNewFrom(k + 1)

\* C8: a gap whose transcription fails adds nothing, every later gap is
\* still processed, and what the other gaps contribute is written and makes
\* the call return True.
C8_FailureDoesNotStopLoop ==
  (pc = "done" /\ \E k \in 1..Len(missing_segments) : Failed(k)) =>
    /\ \A k \in 1..Len(missing_segments) : Processed(k)
    /\ \A k \in 1..Len(missing_segments) : Failed(k) => Returned_segments(k) = <<>>
    /\ new_segments = ExpectedNewFrom(1)
    /\ new_segments # <<>> =>
         /\ result = "True"
         /\ \A line \in Range(SegmentLines(new_segments)) :
               line \in Range(FileSegmentLines(file))
    /\ new_segments = <<>> => result = "False" /\ file = file_at_entry

C8_Witness ==
  /\ pc = "done"
  /\ Len(missing_segments) >= 2
  /\ Failed(1)
  /\ Transcribed(2)
  /\ result = "True"

ErrorMessages == {m \in Range(log) : m.msg \in {"audio_not_found", "clip_failed",
                                                "transcribe_failed"}}

\* every transcription of the call returned sub-segments and none was kept
AllDuplicateOutcome ==
  /\ Returned("False")
  /\ \E k \in 1..Len(missing_segments) : Transcribed(k)
  /\ \A k \in 1..Len(missing_segments) :
        (Processed(k) /\ ~Msg("skip_covered", k) \in Range(log)) =>
           (Transcribed(k) /\ Returned_segments(k) # <<>>)

\* C9: the log of a call tells "all duplicates" from "transcription failed":
\* the error line of a failed transcription is logged for exactly the gaps
\* whose transcription returned nothing, so the all-duplicate outcome ends
\* with the warning alone and a failed transcription never does.
C9_DuplicateOutcomeDistinct ==
  pc = "done" =>
    /\ \A k \in 1..Len(missing_segments) :
          Failed(k) <=> (Transcribed(k) /\ Returned_segments(k) = <<>>)
    /\ AllDuplicateOutcome =>
          (ErrorMessages = {} /\ Msg("no_new_segments", 0) \in Range(log))

C9_Witness ==
  /\ AllDuplicateOutcome
  /\ new_segments = <<>>

SpecAudio(present) ==
  IF ".mp3" \in present THEN ".mp3"
  ELSE IF ".m4a" \in present THEN ".m4a"
  ELSE IF ".webm" \in present THEN ".webm"
  ELSE IF ".opus" \in present THEN ".opus"
  ELSE "none"

\* C10: without an audio file a call with gaps returns False, calls neither
\* the clipper nor the engine and leaves the file alone; otherwise every call
\* is made on the first existing candidate in the order mp3, m4a, webm, opus.
C10_AudioLookup ==
  /\ (pc = "done" /\ missing_segments # <<>> /\ SpecAudio(audio_files) = "none")
       => (result = "False" /\ calls = <<>> /\ clips = {} /\ file = file_at_entry)
  /\ (missing_segments # <<>> /\ SpecAudio(audio_files) = "none") => pc # "loop"
  /\ \A c \in Range(calls) : c.audio = SpecAudio(audio_files)

C10_Witness ==
  /\ pc = "done"
  /\ missing_segments # <<>>
  /\ audio_files = {}
  /\ result = "False"
  /\ Msg("audio_not_found", 0) \in Range(log)

\* C18: a call writes the file at most once, as one whole-file rewrite after
\* the gap loop has run through every gap: until the call returns the file
\* is what it was at entry, and when the call has returned the file either
\* is still what it was at entry or is the one rewrite of it and the call
\* returned True; after a return of False the file is unchanged.
C18_SingleRewrite ==
  /\ pc # "done" => file = file_at_entry
  /\ Returned("False") => file = file_at_entry
  /\ (pc = "done" /\ file # file_at_entry) =>
        /\ result = "True"
        /\ i > Len(missing_segments)
        /\ file = RewrittenFile(file_at_entry, existing_segments, new_segments)

\* a call that clipped and transcribed, added nothing and returned False
C18_Witness ==
  /\ Returned("False")
  /\ \E k \in 1..Len(calls) : calls[k].op = "transcribe"
  /\ \E k \in 1..Len(file) : ~TimestampMatch(file[k]) /\ file[k].kind = "seg"
  /\ file = file_at_entry


\* the comparison returned a full record
Compared == cmp_pc = "done" /\ comparison.error = "None"

Span(g) == [start_seconds |-> g.start_seconds, end_seconds |-> g.end_seconds,
            duration |-> g.duration, base_text |-> g.base_text]
Spans(gaps) == [k \in 1..Len(gaps) |-> Span(gaps[k])]

\* the uncovered base segments of the call, before merging
Uncovered == UncoveredFrom(base_segments, large_segments, 1)

\* C12: the minimum-duration filter is applied to merged gaps. Every gap
\* returned lasts end - start >= min_gap_seconds; one uncovered segment alone
\* is returned iff its own duration reaches the minimum (3 seconds: not with
\* 5, yes with 2); two uncovered segments that merge and together reach the
\* minimum are inside one returned gap even if each alone is too short; the
\* uncovered segments [30,33] and [34,38] give exactly the gap [30,38] of
\* duration 8 with a minimum of 5.
C12_FilterAfterMerge ==
  Compared =>
    LET U == Uncovered
        G == comparison.missing_segments
    IN /\ \A k \in 1..Len(G) :
             /\ G[k].duration >= min_gap_seconds
             /\ G[k].duration = G[k].end_seconds - G[k].start_seconds
       /\ Len(U) = 1 =>
             Spans(G) = IF U[1].end_seconds - U[1].start_seconds >= min_gap_seconds
                        THEN Spans(U) ELSE <<>>
       /\ \A k \in 1..(Len(U) - 1) :
             (/\ U[k + 1].start_seconds <= U[k].end_seconds + 2 * Scale
              /\ U[k + 1].end_seconds - U[k].start_seconds >= min_gap_seconds)
             => \E j \in 1..Len(G) :
                   /\ G[j].start_seconds <= U[k].start_seconds
                   /\ G[j].end_seconds >= U[k + 1].end_seconds
       /\ (/\ Len(U) = 2
           /\ <<U[1].start_seconds, U[1].end_seconds>> = <<300, 330>>
           /\ <<U[2].start_seconds, U[2].end_seconds>> = <<340, 380>>
           /\ min_gap_seconds = 50)
          => /\ Len(G) = 1
             /\ <<G[1].start_seconds, G[1].end_seconds, G[1].duration>> = <<300, 380, 80>>

\* the example: [30,33] and [34,38] uncovered, minimum 5, one gap returned
C12_Witness ==
  /\ Compared
  /\ min_gap_seconds = 50
  /\ Len(Uncovered) = 2
  /\ Uncovered[1].duration = 30
  /\ Uncovered[2].duration = 40
  /\ Len(comparison.missing_segments) = 1
  /\ comparison.missing_segments[1].duration = 80

\* C13: coverage is reflexive: a transcript compared with a transcript of
\* the same content has no gap, for every min_gap_seconds (0 included).
C13_Reflexive ==
  (Compared /\ large_file.lines = base_file.lines)
    => /\ comparison.missing_segments = <<>>
       /\ find_missing_segments(base_segments, base_segments, 0) = <<>>

\* a transcript with a mixed-case two-word segment compared with itself
C13_Witness ==
  /\ Compared
  /\ large_file.lines = base_file.lines
  /\ min_gap_seconds = 0
  /\ \E k \in 1..Len(base_segments) :
        /\ Len(base_segments[k].text) = 2
        /\ LowerText(base_segments[k].text) # base_segments[k].text
        /\ Len(LowerChars(base_segments[k].text)) >= 10
  /\ comparison.missing_segments = <<>>


\* fewer than 10 characters after lower-casing and trimming
SpecShort(t) == Len(LowerChars(t)) < 10

RECURSIVE WithoutShort(_)
WithoutShort(segs) ==
  IF segs = <<>> THEN <<>>
  ELSE (IF SpecShort(Head(segs).text) THEN <<>> ELSE <<Head(segs)>>)
       \o WithoutShort(Tail(segs))

\* t occurs in text as a run of consecutive words
HasWords(text, t) ==
  \E o \in 0..(Len(text) - Len(t)) : SubSeq(text, o + 1, o + Len(t)) = t

\* C14: a base segment of fewer than 10 characters is never reported: no
\* returned gap starts at it, no gap's base_text holds its text, and the
\* gaps (start, end, duration, base_text) are the ones the comparison gives
\* when the short segments are taken out of the base list, so its time span
\* extends no gap.
C14_ShortNeverReported ==
  Compared =>
    LET G == comparison.missing_segments
    IN /\ \A k \in 1..Len(base_segments) :
             SpecShort(base_segments[k].text) =>
                \A j \in 1..Len(G) :
                   /\ G[j].start_seconds # base_segments[k].start_seconds
                   /\ ~HasWords(G[j].base_text, base_segments[k].text)
       /\ Spans(G) = Spans(find_missing_segments(WithoutShort(base_segments),
                                                 large_segments, min_gap_seconds))

\* a short segment lies between two uncovered segments of a returned gap,
\* and the accurate transcript has nothing like it
C14_Witness ==
  /\ Compared
  /\ \E k \in 2..(Len(base_segments) - 1) : \E j \in 1..Len(comparison.missing_segments) :
        /\ SpecShort(base_segments[k].text)
        /\ ~BaseCovered(base_segments[k].text, large_segments)
        /\ comparison.missing_segments[j].start_seconds < base_segments[k].start_seconds
        /\ comparison.missing_segments[j].end_seconds > base_segments[k].end_seconds

\* the file is a header followed by well-formed '[MM:SS] text' lines only
SpecHeaderLength(lines) ==
  Cardinality({k \in 1..Len(lines) : \A j \in 1..k : lines[j].kind # "seg"})

SpecWellFormed(lines) ==
  \A k \in (SpecHeaderLength(lines) + 1)..Len(lines) :
     /\ lines[k].kind = "seg"
     /\ lines[k].min \in 0..99
     /\ lines[k].sec \in 0..99

SpecParsed(lines, segs) ==
  LET h == SpecHeaderLength(lines)
  IN /\ Len(segs) = Len(lines) - h
     /\ \A k \in 1..Len(segs) :
           /\ segs[k].start_seconds = (lines[h + k].min * 60 + lines[h + k].sec) * Scale
           /\ segs[k].text = lines[h + k].text

\* C15: a file made of a header and N well-formed '[MM:SS] text' lines is
\* parsed into exactly N segments in file order, the i-th starting at
\* minutes*60 + seconds of the i-th line and carrying its text.
C15_ParseWellFormed ==
  (cmp_pc = "done" /\ base_file.exists /\ large_file.exists) =>
    /\ SpecWellFormed(base_file.lines) => SpecParsed(base_file.lines, base_segments)
    /\ SpecWellFormed(large_file.lines) => SpecParsed(large_file.lines, large_segments)

\* a parsed file of four lines, some of them past the first minute
C15_Witness ==
  /\ cmp_pc = "done"
  /\ base_file.exists /\ large_file.exists
  /\ SpecWellFormed(base_file.lines)
  /\ Len(base_segments) = 4
  /\ \E k \in 1..Len(base_file.lines) :
        base_file.lines[k].kind = "seg" /\ base_file.lines[k].min > 0


\* no line of the file is a '[MM:SS] text' line
SpecNoSegments(lines) ==
  \A k \in 1..Len(lines) : ~(lines[k].kind = "seg" /\ lines[k].min < 100)

\* the error value the call must return for its pair of files
SpecError ==
  IF ~base_file.exists THEN "Base model transcript not found"
  ELSE IF ~large_file.exists THEN "Large model transcript not found"
  ELSE IF SpecNoSegments(base_file.lines) THEN "Failed to parse base model transcript"
  ELSE IF SpecNoSegments(large_file.lines) THEN "Failed to parse large model transcript"
  ELSE "None"

\* C17: the four failure cases (base file not found, accurate file not
\* found, base file without segments, accurate file without segments) are
\* returned as records with four pairwise different error values, each
\* naming the failing side, and with no gap.
C17_DistinctErrors ==
  cmp_pc = "done" =>
    /\ comparison.error = SpecError
    /\ comparison.error # "None" => comparison.missing_segments = <<>>
    /\ Cardinality({"Base model transcript not found",
                    "Large model transcript not found",
                    "Failed to parse base model transcript",
                    "Failed to parse large model transcript", "None"}) = 5

\* the accurate file exists, has a header and no segment line
C17_Witness ==
  /\ cmp_pc = "done"
  /\ base_file.exists /\ large_file.exists
  /\ ~SpecNoSegments(base_file.lines)
  /\ SpecNoSegments(large_file.lines)
  /\ comparison.error = "Failed to parse large model transcript"

\* the stated merge rule, by index over the uncovered segments: the end of
\* the gap that segment j belongs to, as far as it is known at j
RECURSIVE SpecRunEnd(_, _)
SpecRunEnd(U, j) ==
  IF j = 1 THEN U[1].end_seconds
  ELSE IF U[j].start_seconds <= SpecRunEnd(U, j - 1) + 2 * Scale
       THEN Max(SpecRunEnd(U, j - 1), U[j].end_seconds)
       ELSE U[j].end_seconds

\* segment j is merged into the gap of segment j - 1
SpecMerged(U, j) ==
  j > 1 /\ U[j].start_seconds <= SpecRunEnd(U, j - 1) + 2 * Scale

\* the first segment of the gap that segment j belongs to
SpecRunFirst(U, j) ==
  CHOOSE a \in 1..j : ~SpecMerged(U, a) /\ \A b \in (a + 1)..j : SpecMerged(U, b)

RECURSIVE SpecJoin(_, _, _)
SpecJoin(U, a, b) ==
  IF a > b THEN <<>> ELSE U[a].base_text \o SpecJoin(U, a + 1, b)

\* the gap that ends with segment j
SpecGap(U, j) ==
  LET a == SpecRunFirst(U, j)
  IN [start_seconds |-> U[a].start_seconds,
      end_seconds   |-> SpecRunEnd(U, j),
      duration      |-> SpecRunEnd(U, j) - U[a].start_seconds,
      base_text     |-> SpecJoin(U, a, j)]

RECURSIVE SpecGapsFrom(_, _, _)
SpecGapsFrom(U, j, min_gap) ==
  IF j > Len(U) THEN <<>>
  ELSE (IF (j = Len(U) \/ ~SpecMerged(U, j + 1)) /\ SpecGap(U, j).duration >= min_gap
        THEN <<SpecGap(U, j)>> ELSE <<>>)
       \o SpecGapsFrom(U, j + 1, min_gap)

\* C20: the gaps are built from the uncovered segments in their order by
\* the stated rule: a segment joins the current gap iff its start is at most
\* 2 seconds after the gap's end so far, the gap's end is the larger of the
\* two ends, its base_text the texts in order, its duration end - start;
\* otherwise the gap is closed and the segment starts the next one.
C20_MergeRule ==
  Compared =>
    Spans(comparison.missing_segments) = SpecGapsFrom(Uncovered, 1, min_gap_seconds)

\* a merge on the boundary: the second uncovered segment starts exactly two
\* seconds after the first one ends
C20_Witness ==
  /\ Compared
  /\ Len(Uncovered) = 2
  /\ Uncovered[2].start_seconds = Uncovered[1].end_seconds + 2 * Scale
  /\ Len(comparison.missing_segments) = 1
  /\ comparison.missing_segments[1].base_text
        = Uncovered[1].base_text \o Uncovered[2].base_text


\* the declared ranges differ by no more than 5 seconds on both endpoints
SpecWithinFive(base_entry, large_entry) ==
  LET b == get_file_time_range(base_entry)
      l == get_file_time_range(large_entry)
  IN /\ Abs(b[1] - l[1]) <= 5
     /\ Abs(b[2] - l[2]) <= 5

\* C16: when the base file exists, the accurate file returned is the
\* chapter-number match if its declared range is within 5 seconds of the
\* base file's on both endpoints; otherwise a file of the accurate directory
\* whose range is within 5 seconds, if there is one; otherwise the
\* chapter-number match (none if there is none).
C16_MatchWithinFive ==
  (match_pc = "done" /\ matched.base # 0) =>
    LET b == base_dir[matched.base]
        l == ChapterFile(large_dir, chapter_num)
    IN IF l # 0 /\ SpecWithinFive(b, large_dir[l])
       THEN matched.large = l
       ELSE IF \E k \in 1..Len(large_dir) :
                  ~large_dir[k].formatted /\ SpecWithinFive(b, large_dir[k])
       THEN matched.large # 0 /\ SpecWithinFive(b, large_dir[matched.large])
       ELSE matched.large = l


\* C11: an I/O error in one chapter's comparison or repair does not end
\* the batch: when main is through, every chapter has been compared, the
\* summary has been printed and, with --fix, the repair loop has gone
\* through every result.
C11_ErrorStaysInChapter ==
  main_pc = "exit" =>
    /\ chapter_index > Len(chapters)
    /\ summary_printed
    /\ fix => fix_index > Len(results)


\* both calls are through and both rewrote the file, the second writer
\* having read the file before the first rewrite
RacedWrites ==
  /\ \A p \in Passes : pass_pc[p] = "done"
  /\ Len(write_order) = 2
  /\ pass_read_after[write_order[2]] = 0

LineOf(seg) == SegLine(seg.timestamp_str, seg.text)
HasLine(f, line) == \E k \in 1..Len(f) : f[k] = line

\* C19: two concurrent repairs of one chapter race. When both rewrite the
\* file and the second writer read it before the first rewrite, the final
\* file is the second writer's view alone: a segment the first writer added
\* is in the final file only if the second writer had that line itself.
C19_LastWriterWins ==
  RacedWrites =>
    LET first == write_order[1]
        last  == write_order[2]
        own   == SegmentLines(pass_existing[last] \o pass_new[last])
    IN /\ FileSegmentLines(shared_file)
            = SegmentLines(SortByStart(pass_existing[last] \o pass_new[last]))
       /\ \A k \in 1..Len(pass_new[first]) :
             HasLine(shared_file, LineOf(pass_new[first][k]))
                => HasLine(own, LineOf(pass_new[first][k]))

\* the race has happened: the first rewrite put a segment line into the
\* file that the final file no longer has
C19_Witness ==
  /\ RacedWrites
  /\ \E k \in 1..Len(pass_new[write_order[1]]) :
        /\ HasLine(first_written, LineOf(pass_new[write_order[1]][k]))
        /\ ~HasLine(shared_file, LineOf(pass_new[write_order[1]][k]))

\* the keys of a full record
SpecRecordKeys ==
  {"base_file", "large_file", "base_segments_count", "large_segments_count",
   "missing_segments", "total_missing_duration", "error"}

\* the durations of gaps[1..n] added up
RECURSIVE SpecTotal(_, _)
SpecTotal(gaps, n) ==
  IF n = 0 THEN 0 ELSE SpecTotal(gaps, n - 1) + gaps[n].duration

\* C28: in every record returned by compare_chapter_transcripts an error
\* comes with an empty list of gaps, and a record without error carries both
\* file names, both segment counts and a total duration that is the sum of the
\* durations of its gaps
C28_RecordShape ==
  cmp_pc = "done" =>
    /\ "error" \in DOMAIN comparison
    /\ comparison.error # "None" => comparison.missing_segments = <<>>
    /\ comparison.error = "None" =>
         /\ DOMAIN comparison = SpecRecordKeys
         /\ comparison.base_file = base_file.lines
         /\ comparison.large_file = large_file.lines
         /\ comparison.base_segments_count = Len(base_segments)
         /\ comparison.large_segments_count = Len(large_segments)
         /\ comparison.total_missing_duration =
              SpecTotal(comparison.missing_segments,
                        Len(comparison.missing_segments))

\* a full record with two gaps of different durations
C28_Witness ==
  /\ Compared
  /\ Len(comparison.missing_segments) = 2
  /\ comparison.missing_segments[1].duration # comparison.missing_segments[2].duration
  /\ comparison.total_missing_duration > 2

\* the lower-cased words of a text that are longer than n characters
SpecLongWords(t, n) == SelectSeq(LowerText(t), LAMBDA w : Len(Chars(w)) > n)

\* the lower-cased texts of segs[1..n] joined with single blanks
RECURSIVE SpecJoined(_, _)
SpecJoined(segs, n) ==
  IF n = 0 THEN <<>>
  ELSE IF n = 1 THEN LowerChars(segs[1].text)
  ELSE SpecJoined(segs, n - 1) \o <<" ">> \o LowerChars(segs[n].text)

\* check 1: some accurate segment's lower-cased text contains the base text
SpecCheck1(b, L) ==
  \E k \in 1..Len(L) : Contains(LowerChars(L[k].text), LowerChars(b))

\* check 2: one accurate segment contains, as substrings, at least 70% of the
\* base words longer than 3 characters (there must be such words)
SpecCheck2(b, L) ==
  LET ws == SpecLongWords(b, 3)
      found(k) == Cardinality({j \in 1..Len(ws) :
                      Contains(LowerChars(L[k].text), Chars(ws[j]))})
  IN ws # <<>> /\ \E k \in 1..Len(L) : 100 * found(k) >= 70 * Len(ws)

\* check 3: one accurate segment's set of words longer than 2 characters holds
\* at least 80% of the base segment's such set (which must not be empty)
SpecCheck3(b, L) ==
  LET set(t) == {SpecLongWords(t, 2)[j] : j \in 1..Len(SpecLongWords(t, 2))}
  IN set(b) # {} /\ \E k \in 1..Len(L) :
        100 * Cardinality(set(b) \cap set(L[k].text)) >= 80 * Cardinality(set(b))

\* check 4: a run of 3 consecutive words of the base text occurs in the
\* blank-joined text of all accurate segments
SpecCheck4(b, L) ==
  \E j \in 1..(Len(b) - 2) :
     Contains(SpecJoined(L, Len(L)), LowerChars(SubSeq(b, j, j + 2)))

\* the returned gaps report the base segment at index k
SpecReported(k) ==
  \E j \in 1..Len(comparison.missing_segments) :
     LET g == comparison.missing_segments[j]
     IN /\ HasWords(g.base_text, base_segments[k].text)
        /\ g.start_seconds <= base_segments[k].start_seconds
        /\ base_segments[k].end_seconds <= g.end_seconds

\* C21: a base segment of at least 10 characters is uncovered (reported in a
\* gap when nothing is filtered by duration) if and only if the four checks
\* all fail
C21_UncoveredIffAllFail ==
  (Compared /\ min_gap_seconds = 0) =>
     \A k \in 1..Len(base_segments) :
        LET b == base_segments[k].text
        IN Len(LowerChars(b)) >= 10 =>
             (SpecReported(k) <=>
                /\ ~SpecCheck1(b, large_segments)
                /\ ~SpecCheck2(b, large_segments)
                /\ ~SpecCheck3(b, large_segments)
                /\ ~SpecCheck4(b, large_segments))

\* one base segment is reported with exactly half of its meaningful words
\* found, and its neighbour is covered by the word-set check alone
C21_Witness ==
  /\ Compared /\ min_gap_seconds = 0
  /\ \E k \in 1..Len(base_segments) :
        /\ SpecReported(k)
        /\ \E n \in 1..Len(large_segments) :
              2 * CountFound(SpecLongWords(base_segments[k].text, 3),
                             LowerChars(large_segments[n].text))
                 = Len(SpecLongWords(base_segments[k].text, 3))
  /\ \E k \in 1..Len(base_segments) :
        LET b == base_segments[k].text
        IN /\ ~SpecReported(k) /\ ~SpecShort(b)
           /\ SpecCheck3(b, large_segments)
           /\ ~SpecCheck1(b, large_segments)
           /\ ~SpecCheck2(b, large_segments)
           /\ ~SpecCheck4(b, large_segments)

\* the distance between two time ranges (0 when they meet or intersect)
SpecSeparation(s1, e1, s2, e2) ==
  IF e1 < s2 THEN s2 - e1 ELSE IF e2 < s1 THEN s1 - e2 ELSE 0

\* duplicates in the words of the claim: at most 2 seconds apart, and more
\* than half of the new segment's first-10-word set in the existing one's
SpecDuplicatePair(start, end, text, seg) ==
  /\ SpecSeparation(start, end, seg.start_seconds, seg.end_seconds) <= 2 * Scale
  /\ 2 * Cardinality(FirstWords(text) \cap FirstWords(seg.text))
       > Cardinality(FirstWords(text))

\* sub-segment n of gap k, on the chapter's time axis
SpecSpliced(k, n) ==
  LET sub == Returned_segments(k)[n]
      g   == Gap(missing_segments[k])
  IN [start_seconds |-> g.start_seconds + sub.start,
      end_seconds   |-> g.start_seconds + sub.end,
      text          |-> sub.text]

SpecAdded(k, n) ==
  \E m \in 1..Len(new_segments) :
     /\ new_segments[m].start_seconds = SpecSpliced(k, n).start_seconds
     /\ new_segments[m].end_seconds = SpecSpliced(k, n).end_seconds
     /\ new_segments[m].text = SpecSpliced(k, n).text

\* C22: a returned sub-segment is dropped exactly when it is a duplicate of
\* an existing segment (time ranges at most 2 seconds apart, 2 seconds
\* included, and more than 50% of its first-10-word set in the existing
\* segment's); dropping it raises no error message, and every other
\* sub-segment is added
C22_DuplicateRule ==
  pc \in {"loop", "done"} =>
    \A k \in 1..Len(missing_segments) :
       (k < i /\ Transcribed(k)) =>
          \A n \in 1..Len(Returned_segments(k)) :
             LET x == SpecSpliced(k, n)
                 dup == \E e \in Range(existing_segments) :
                           SpecDuplicatePair(x.start_seconds, x.end_seconds, x.text, e)
             IN /\ dup <=> ~SpecAdded(k, n)
                /\ dup => ~Failed(k) /\ Msg("clip_failed", k) \notin Range(log)

\* a sub-segment exactly 2 seconds before an existing segment with the same
\* words was dropped, and another sub-segment of the call was added
C22_Witness ==
  /\ pc = "done"
  /\ \E k \in 1..Len(missing_segments) :
        /\ Transcribed(k)
        /\ \E n \in 1..Len(Returned_segments(k)) :
              /\ ~SpecAdded(k, n)
              /\ \E e \in Range(existing_segments) :
                    /\ SpecSpliced(k, n).end_seconds + 2 * Scale = e.start_seconds
                    /\ SpecDuplicatePair(SpecSpliced(k, n).start_seconds,
                                         SpecSpliced(k, n).end_seconds,
                                         SpecSpliced(k, n).text, e)
        /\ \E n \in 1..Len(Returned_segments(k)) : SpecAdded(k, n)

\* the start of the range the file's "Time:" line declares, in tenths
SpecDeclaredStart(lines) ==
  LET k == CHOOSE n \in 1..Len(lines) : lines[n].kind = "Time"
  IN (lines[k].min * 60 + lines[k].sec) * Scale

\* C26: every clip is cut at [chapter_start + gap.start_seconds, chapter_start
\* + gap.end_seconds], chapter_start being the start of the range the
\* accurate-pass file declares, and every new segment sits at gap.start_seconds
\* plus its clip-relative start
C26_ClipOnChapterAxis ==
  /\ \A c \in Range(calls) :
        c.op = "clip" =>
          /\ c.start = SpecDeclaredStart(file) + Gap(missing_segments[c.gap]).start_seconds
          /\ c.end = SpecDeclaredStart(file) + Gap(missing_segments[c.gap]).end_seconds
  /\ pc \in {"loop", "done"} =>
        \A m \in 1..Len(new_segments) :
           \E k \in 1..Len(missing_segments) :
              /\ Transcribed(k)
              /\ \E n \in 1..Len(Returned_segments(k)) : 
                    /\ new_segments[m].start_seconds = SpecSpliced(k, n).start_seconds
                    /\ new_segments[m].end_seconds = SpecSpliced(k, n).end_seconds

\* what a written segment must read back as: its text and the whole-second
\* part of its start
SpecReadBack(seg) ==
  [text |-> seg.text, start_seconds |-> (seg.start_seconds \div Scale) * Scale]

\* number of entries of segs that read back as r
SpecCount(segs, r) ==
  Cardinality({m \in 1..Len(segs) : SpecReadBack(segs[m]) = r})

\* C25: after a repair that rewrote the file, parsing the file gives one
\* segment per written segment (existing plus accepted new), each with the
\* written text and the whole-second part of the written start
C25_RoundTrip ==
  (pc = "done" /\ result = "True" /\ new_segments # <<>>) =>
     LET written == existing_segments \o new_segments
         parsed  == parse_transcript_file(file)
     IN /\ Len(parsed) = Len(written)
        /\ \A m \in 1..Len(written) :
              SpecCount(parsed, SpecReadBack(written[m]))
                = SpecCount(written, SpecReadBack(written[m]))

\* the end the claim gives to segs[m]: the following segment decides when it
\* starts within 15 seconds, the word count otherwise
SpecEnd(segs, m) ==
  LET start == segs[m].start_seconds
      est   == (Len(segs[m].text) * 2 * Scale) \div 5
  IN IF m < Len(segs)
     THEN IF segs[m + 1].start_seconds - start < 15 * Scale
          THEN Min(segs[m + 1].start_seconds, start + 8 * Scale)
          ELSE Min(start + est, start + 8 * Scale)
     ELSE Min(start + est, start + 10 * Scale)

\* C24: the end of every parsed segment is min(next_start, start + 8) when a
\* following segment starts within 15 seconds, and otherwise start +
\* word_count / 2.5 capped at start + 8, or at start + 10 for the last segment
C24_EndInference ==
  pc = "loop" =>
    \A m \in 1..Len(existing_segments) :
       existing_segments[m].end_seconds = SpecEnd(existing_segments, m)

\* C23: every parsed segment ends no earlier than it starts, and the segments
\* of one parsed file are in non-decreasing order of start
C23_ParsedOrdered ==
  pc = "loop" =>
    /\ \A m \in 1..Len(existing_segments) :
          existing_segments[m].end_seconds >= existing_segments[m].start_seconds
    /\ \A m \in 1..(Len(existing_segments) - 1) :
          existing_segments[m].start_seconds <= existing_segments[m + 1].start_seconds

\* a file rewritten by an earlier call is parsed again: it holds a spliced
\* segment between two original ones, and two segments with the same label
C23_Witness ==
  /\ pc = "loop"
  /\ run > 1
  /\ prev_result = "True"
  /\ \E m \in 1..(Len(existing_segments) - 1) :
        existing_segments[m].end_seconds = existing_segments[m].start_seconds

\* the base segment at index k is uncovered: 10 characters or more and all
\* four checks fail
SpecUncovered(k) ==
  LET b == base_segments[k].text
  IN /\ Len(LowerChars(b)) >= 10
     /\ ~SpecCheck1(b, large_segments)
     /\ ~SpecCheck2(b, large_segments)
     /\ ~SpecCheck3(b, large_segments)
     /\ ~SpecCheck4(b, large_segments)

\* the indexes of the uncovered base segments gap g was made of
SpecMembers(g) ==
  {k \in 1..Len(base_segments) :
     /\ SpecUncovered(k)
     /\ HasWords(g.base_text, base_segments[k].text)
     /\ g.start_seconds <= base_segments[k].start_seconds
     /\ base_segments[k].end_seconds <= g.end_seconds}

SpecFirst(g) == CHOOSE k \in SpecMembers(g) : \A n \in SpecMembers(g) : k <= n
SpecLast(g) == CHOOSE k \in SpecMembers(g) : \A n \in SpecMembers(g) : k >= n

\* at most 100 characters of the text of base segment k, None outside the list
SpecContext(k) ==
  IF k < 1 \/ k > Len(base_segments) THEN <<"None">>
  ELSE SubSeq(RawChars(base_segments[k].text), 1,
              Min(100, Len(RawChars(base_segments[k].text))))

\* the contexts of gap g are the texts next to its first and last segment
SpecContextTexts(g) ==
  /\ g.context_before = SpecContext(SpecFirst(g) - 1)
  /\ g.context_after = SpecContext(SpecLast(g) + 1)
  /\ Len(g.context_before) <= 100 /\ Len(g.context_after) <= 100

\* C29: the context of every returned gap is at most 100 characters of the
\* base segment just before its first and just after its last uncovered
\* segment, and neither of these two segments is itself uncovered
C29_ContextIsCovered ==
  Compared =>
    \A j \in 1..Len(comparison.missing_segments) :
       LET g == comparison.missing_segments[j]
       IN /\ SpecContextTexts(g)
          /\ SpecFirst(g) > 1 => ~SpecUncovered(SpecFirst(g) - 1)
          /\ SpecLast(g) < Len(base_segments) => ~SpecUncovered(SpecLast(g) + 1)

\* the positions k <= n of results whose record has no error and a gap, in
\* result order
RECURSIVE SpecDue(_)
SpecDue(n) ==
  IF n = 0 THEN <<>>
  ELSE SpecDue(n - 1) \o
       (IF results[n].error = "None" /\ Len(results[n].missing_segments) >= 1
        THEN <<n>> ELSE <<>>)

SpecBaseTexts == {T_abcd, T_next, T_late, T_zeta, T_opc, T_gdn, T_hnp}

\* C30: a repair that rewrote the file leaves every base segment covered
\* that was covered before: whatever the base text, if the comparison found
\* it covered by the file as it was at the call, it finds it covered by the
\* rewritten file
C30_CoveredStaysCovered ==
  (pc = "done" /\ result = "True" /\ file # file_at_entry) =>
     \A b \in SpecBaseTexts :
        BaseCovered(b, parse_transcript_file(file_at_entry))
          => BaseCovered(b, parse_transcript_file(file))

====
